---- MODULE Spec2Model ----
(***************************************************************************)
(* Model of ipalib/parameters.py: the Param value pipeline                 *)
(* (normalize -> convert -> validate), default resolution (get_default,    *)
(* DefaultFrom) and rule composition.                                      *)
(*                                                                         *)
(* Python values are records.  A scalar is [k, n, s]: k is the Python      *)
(* type name, n the numeric payload (int value, float value in tenths,     *)
(* bool as 0/1), s the character sequence of a unicode/str value.  A       *)
(* tuple or list is [k, items].                                            *)
(***************************************************************************)
EXTENDS Integers, Sequences, FiniteSets, TLC

VARIABLES param, pc, op, raw, kw, context, value, validated, out, calls

vars == <<param, pc, op, raw, kw, context, value, validated, out, calls>>

(***************************************************************************)
(* Bounds of the model.                                                    *)
(***************************************************************************)
\* longest raw tuple/list handed to the pipeline
MaxLen == 2

\* xmlrpclib.MAXINT, the default maxvalue of Int
MAXINT == 2147483647

(***************************************************************************)
(* Python values.                                                          *)
(***************************************************************************)
None == [k |-> "none", n |-> 0, s |-> <<>>]

PyUnicode(s) == [k |-> "unicode", n |-> 0, s |-> s]

PyStr(s) == [k |-> "str", n |-> 0, s |-> s]

PyInt(n) == [k |-> "int", n |-> n, s |-> <<>>]

\* a float with one decimal digit: PyFloat(15) is 1.5
PyFloat(tenths) == [k |-> "float", n |-> tenths, s |-> <<>>]

PyBool(b) == [k |-> "bool", n |-> IF b THEN 1 ELSE 0, s |-> <<>>]

PyTuple(items) == [k |-> "tuple", items |-> items]

PyList(items) == [k |-> "list", items |-> items]

IsSeqValue(v) == v.k \in {"tuple", "list"}

\* value in NULLS, with NULLS = (None, '', u'', tuple(), []) of ipalib.constants
IsNull(v) ==
    \/ v.k = "none"
    \/ v.k \in {"unicode", "str"} /\ v.s = <<>>
    \/ v.k \in {"tuple", "list"} /\ v.items = <<>>

(***************************************************************************)
(* Text helpers: Python's int(), float(), unicode() and unicode.lower()    *)
(* on the characters the model uses.                                       *)
(***************************************************************************)
DigitChars == <<"0", "1", "2", "3", "4", "5", "6", "7", "8", "9">>

IsDigit(c) == \E d \in 1..10 : DigitChars[d] = c

DigitOf(c) == (CHOOSE d \in 1..10 : DigitChars[d] = c) - 1

AllDigits(s) == \A i \in 1..Len(s) : IsDigit(s[i])

RECURSIVE DigitsValue(_, _)
DigitsValue(s, base) ==
    IF s = <<>> THEN 0
    ELSE DigitsValue(SubSeq(s, 1, Len(s) - 1), base) * base + DigitOf(s[Len(s)])

RECURSIVE FormatNat(_)
FormatNat(n) ==
    IF n < 10 THEN <<DigitChars[n + 1]>>
    ELSE FormatNat(n \div 10) \o <<DigitChars[(n % 10) + 1]>>

\* unicode(f) for a non-negative float with one decimal digit
FormatFloat(tenths) == FormatNat(tenths \div 10) \o <<".">> \o FormatNat(tenths % 10)

DotPositions(s) == {i \in 1..Len(s) : s[i] = "."}

\* int(s, 0) on digit strings: a leading zero selects octal in Python 2
ParseIntRadix0(s) ==
    IF s = <<>> \/ ~AllDigits(s) THEN [ok |-> FALSE, n |-> 0]
    ELSE IF Len(s) > 1 /\ s[1] = "0"
         THEN IF \A i \in 1..Len(s) : DigitOf(s[i]) < 8
              THEN [ok |-> TRUE, n |-> DigitsValue(s, 8)]
              ELSE [ok |-> FALSE, n |-> 0]
         ELSE [ok |-> TRUE, n |-> DigitsValue(s, 10)]

\* int(float(s)) on strings holding a '.': the integer part, truncated
ParseFloatTrunc(s) ==
    IF Cardinality(DotPositions(s)) # 1 THEN [ok |-> FALSE, n |-> 0]
    ELSE LET d == CHOOSE i \in DotPositions(s) : TRUE
             ip == SubSeq(s, 1, d - 1)
             fp == SubSeq(s, d + 1, Len(s))
         IN IF AllDigits(ip) /\ AllDigits(fp) /\ Len(ip) + Len(fp) > 0
            THEN [ok |-> TRUE, n |-> DigitsValue(ip, 10)]
            ELSE [ok |-> FALSE, n |-> 0]

LowerChar(c) == IF c = "A" THEN "a" ELSE IF c = "B" THEN "b" ELSE c

Lower(s) == [i \in 1..Len(s) |-> LowerChar(s[i])]

\* s[1:]
Tail2(s) == IF s = <<>> THEN <<>> ELSE Tail(s)

(***************************************************************************)
(* Outcomes of a call: a returned value or a raised exception.             *)
(***************************************************************************)
NoIndex == 0 - 1

NoMsg == [msg |-> "", arg |-> 0]

Msg(text, arg) == [msg |-> text, arg |-> arg]

Ok(v) == [ok |-> TRUE, val |-> v]

Raise(e) == [ok |-> FALSE, exc |-> e]

Exc(type, name, index, error, v, rule) ==
    [type |-> type, name |-> name, index |-> index, error |-> error,
     value |-> v, rule |-> rule]

ConversionError(name, index, error) ==
    Exc("ConversionError", name, index, error, None, "")

RequirementError(name) ==
    Exc("RequirementError", name, NoIndex, NoMsg, None, "")

ValidationError(name, v, index, error, rule) ==
    Exc("ValidationError", name, index, error, v, rule)

\* any other StandardError raised by a callback or by a contract check
StandardError(type, text) == Exc(type, "", NoIndex, Msg(text, 0), None, "")

(***************************************************************************)
(* Callables handed to a Param: normalizers, DefaultFrom callbacks,        *)
(* create_default factories and rules.                                     *)
(***************************************************************************)
PyFn(name) == [k |-> "function", name |-> name]

\* a create_default callback that returns r whatever the keyword arguments
Factory(r) == [k |-> "function", name |-> "factory", ret |-> r]

\* a create_default callback that raises
FactoryRaise == [k |-> "function", name |-> "factory_raise"]

\* DefaultFrom.__init__ with explicit keys
DefaultFrom(callback, keys) == [k |-> "DefaultFrom", callback |-> callback, keys |-> keys]

IsCallable(v) == v.k \in {"function", "DefaultFrom"}

\* the keyword bag **kw is a record over the keys the model uses; a key that
\* was not supplied holds Absent
Absent == [k |-> "absent", n |-> 0, s |-> <<>>]

\* kw.get(key, None)
KwGet(bindings, key) ==
    IF key \in DOMAIN bindings /\ bindings[key] # Absent THEN bindings[key] ELSE None

\* the normalizer callbacks of the model:
\*   lower  lambda value: value.lower()
\*   tail   lambda value: value[1:]
\*   fail   a callback that raises a StandardError
NormalizerCall(fn, v) ==
    CASE fn.name = "lower" -> Ok(PyUnicode(Lower(v.s)))
      [] fn.name = "tail" -> Ok(PyUnicode(Tail2(v.s)))
      [] OTHER -> Raise(StandardError("StandardError", "normalizer failed"))

\* the DefaultFrom callbacks of the model:
\*   login  lambda first, last: first[0] + last   (the class docstring)
\*   echo   lambda x: x
\*   fail   a callback that raises a StandardError
CallbackCall(callback, vals) ==
    CASE callback = "login" ->
            IF Len(vals) # 2
            THEN Raise(StandardError("TypeError", "wrong number of arguments"))
            ELSE IF vals[1].k # "unicode" \/ vals[2].k # "unicode"
            THEN Raise(StandardError("TypeError", "unsupported operand"))
            ELSE IF vals[1].s = <<>>
            THEN Raise(StandardError("IndexError", "string index out of range"))
            ELSE Ok(PyUnicode(<<vals[1].s[1]>> \o vals[2].s))
      [] callback = "echo" ->
            IF Len(vals) # 1
            THEN Raise(StandardError("TypeError", "wrong number of arguments"))
            ELSE Ok(vals[1])
      [] OTHER -> Raise(StandardError("StandardError", "callback failed"))

\* create_default(**kw)
FactoryCall(fn, bindings) ==
    IF fn.name = "factory" THEN Ok(fn.ret)
    ELSE Raise(StandardError("StandardError", "factory failed"))

(***************************************************************************)
(* The Param instance: the attributes __init__ sets from the keywords.     *)
(***************************************************************************)
\* the class attribute `type` of each Param subclass
TypeOf(klass) ==
    CASE klass = "Str" -> "unicode"
      [] klass = "Bytes" -> "str"
      [] klass = "Int" -> "int"
      [] klass = "Float" -> "float"
      [] klass \in {"StrEnum", "AccessTime"} -> "unicode"
      [] klass = "List" -> "tuple"
      [] OTHER -> "none"

\* the class attribute `type_error`
TypeErrorOf(klass) ==
    CASE klass \in {"Str", "AccessTime"} -> "must be Unicode text"
      [] klass = "Bytes" -> "must be binary data"
      [] klass = "Int" -> "must be an integer"
      [] klass = "Float" -> "must be a decimal number"
      [] OTHER -> "incorrect type"

scalar_error == "Only one value is allowed"

\* the attributes of Param('login', ...) of class klass with every keyword
\* at its default
BaseParam(klass) ==
    [klass |-> klass, name |-> "login", cli_name |-> "login",
     required |-> TRUE, multivalue |-> FALSE, query |-> FALSE,
     normalizer |-> None, default_from |-> None, create_default |-> None,
     default |-> None,
     minlength |-> None, maxlength |-> None, length |-> None,
     minvalue |-> None,
     maxvalue |-> IF klass = "Int" THEN PyInt(MAXINT) ELSE None,
     rules |-> <<>>]

(***************************************************************************)
(* normalize                                                               *)
(***************************************************************************)
\* Param._normalize_scalar giving None when the normalizer fails
NormalizeScalar_DropFailed(p, v) ==
    IF v.k # "unicode" THEN v
    ELSE LET r == NormalizerCall(p.normalizer, v)
         IN IF r.ok THEN r.val ELSE None

\* Param._normalize_scalar
NormalizeScalar(p, v) ==
    IF v.k # "unicode" THEN v
    ELSE LET r == NormalizerCall(p.normalizer, v)
         IN IF r.ok THEN r.val ELSE v

\* Param.normalize without the `type(value) in (tuple, list)` test
Normalize_AlwaysWrap(p, v) ==
    IF p.normalizer = None THEN v
    ELSE IF p.multivalue
         THEN PyTuple(<<NormalizeScalar(p, v)>>)
         ELSE NormalizeScalar(p, v)

\* Param.normalize
Normalize(p, v) ==
    IF p.normalizer = None THEN v
    ELSE IF p.multivalue
         THEN IF IsSeqValue(v)
              THEN PyTuple([i \in 1..Len(v.items) |-> NormalizeScalar(p, v.items[i])])
              ELSE PyTuple(<<NormalizeScalar(p, v)>>)
         ELSE NormalizeScalar(p, v)

(***************************************************************************)
(* convert                                                                 *)
(***************************************************************************)
\* Param._convert_scalar, inherited by Bytes
ParamConvertScalar(p, v, index) ==
    IF v.k = TypeOf(p.klass) THEN Ok(v)
    ELSE Raise(ConversionError(p.name, index, Msg(TypeErrorOf(p.klass), 0)))

\* Str._convert_scalar
StrConvertScalar(p, v, index) ==
    IF v.k = "unicode" THEN Ok(v)
    ELSE IF v.k = "int" THEN Ok(PyUnicode(FormatNat(v.n)))
    ELSE IF v.k = "float" THEN Ok(PyUnicode(FormatFloat(v.n)))
    ELSE IF IsSeqValue(v)
         THEN Raise(ConversionError(p.name, index, Msg(scalar_error, 0)))
         ELSE Raise(ConversionError(p.name, index, Msg(TypeErrorOf(p.klass), 0)))

\* Int._convert_scalar
IntConvertScalar(p, v, index) ==
    LET parsed == IF v.k # "unicode" THEN [ok |-> FALSE, n |-> 0]
                  ELSE IF DotPositions(v.s) # {} THEN ParseFloatTrunc(v.s)
                  ELSE ParseIntRadix0(v.s)
    IN IF v.k = "int" THEN Ok(v)
       ELSE IF parsed.ok THEN Ok(PyInt(parsed.n))
       ELSE IF v.k = "float" THEN Ok(PyInt(v.n \div 10))
       ELSE Raise(ConversionError(p.name, index, Msg(TypeErrorOf(p.klass), 0)))

\* float(s) on text with at most one digit after the '.', in tenths
ParseFloat(s) ==
    IF DotPositions(s) = {}
    THEN IF s # <<>> /\ AllDigits(s) THEN [ok |-> TRUE, n |-> 10 * DigitsValue(s, 10)]
         ELSE [ok |-> FALSE, n |-> 0]
    ELSE IF ParseFloatTrunc(s).ok /\ Len(s) - (CHOOSE i \in DotPositions(s) : TRUE) <= 1
    THEN [ok |-> TRUE,
          n |-> 10 * ParseFloatTrunc(s).n
                + DigitsValue(SubSeq(s, (CHOOSE i \in DotPositions(s) : TRUE) + 1, Len(s)), 10)]
    ELSE [ok |-> FALSE, n |-> 0]

\* Number._convert_scalar, inherited by Float
FloatConvertScalar(p, v, index) ==
    IF v.k = "float" THEN Ok(v)
    ELSE IF v.k = "int" THEN Ok(PyFloat(10 * v.n))
    ELSE IF v.k = "unicode" /\ ParseFloat(v.s).ok THEN Ok(PyFloat(ParseFloat(v.s).n))
    ELSE IF IsSeqValue(v)
         THEN Raise(ConversionError(p.name, index, Msg(scalar_error, 0)))
         ELSE Raise(ConversionError(p.name, index, Msg(TypeErrorOf(p.klass), 0)))

\* List._convert_scalar
ListConvertScalar(p, v, index) == Ok(v)

\* self._convert_scalar(value, index), dispatched on the class
ConvertScalar(p, v, index) ==
    CASE p.klass \in {"Str", "AccessTime"} -> StrConvertScalar(p, v, index)
      [] p.klass = "Int" -> IntConvertScalar(p, v, index)
      [] p.klass = "Float" -> FloatConvertScalar(p, v, index)
      [] p.klass = "List" -> ListConvertScalar(p, v, index)
      [] OTHER -> ParamConvertScalar(p, v, index)

\* filter(lambda iv: iv[1] not in NULLS, enumerate(value)): the indices kept,
\* in order (1-based positions of the model; the Python index is i - 1)
RECURSIVE NonNullIndices(_, _)
NonNullIndices(items, i) ==
    IF i > Len(items) THEN <<>>
    ELSE IF IsNull(items[i]) THEN NonNullIndices(items, i + 1)
    ELSE <<i>> \o NonNullIndices(items, i + 1)

\* Param.convert without the `if len(values) == 0: return` branch
Convert_EmptyTuple(p, v) ==
    IF IsNull(v) THEN Ok(None)
    ELSE IF p.multivalue
    THEN LET items == IF IsSeqValue(v) THEN v.items ELSE <<v>>
             kept == NonNullIndices(items, 1)
             conv == [j \in 1..Len(kept) |-> ConvertScalar(p, items[kept[j]], kept[j] - 1)]
             bad == {j \in 1..Len(kept) : ~conv[j].ok}
         IN IF bad # {}
            THEN conv[CHOOSE j \in bad : \A j2 \in bad : j <= j2]
            ELSE Ok(PyTuple([j \in 1..Len(kept) |-> conv[j].val]))
    ELSE ConvertScalar(p, v, NoIndex)

\* Param.convert numbering the elements after the null-equivalents are
\* filtered out
Convert_FilteredIndex(p, v) ==
    IF IsNull(v) THEN Ok(None)
    ELSE IF p.multivalue
    THEN LET items == IF IsSeqValue(v) THEN v.items ELSE <<v>>
             kept == NonNullIndices(items, 1)
             conv == [j \in 1..Len(kept) |-> ConvertScalar(p, items[kept[j]], j - 1)]
             bad == {j \in 1..Len(kept) : ~conv[j].ok}
         IN IF bad # {}
            THEN conv[CHOOSE j \in bad : \A j2 \in bad : j <= j2]
            ELSE IF Len(kept) = 0 THEN Ok(None)
            ELSE Ok(PyTuple([j \in 1..Len(kept) |-> conv[j].val]))
    ELSE ConvertScalar(p, v, NoIndex)

\* Param.convert
Convert(p, v) ==
    IF IsNull(v) THEN Ok(None)
    ELSE IF p.multivalue
    THEN LET items == IF IsSeqValue(v) THEN v.items ELSE <<v>>
             kept == NonNullIndices(items, 1)
             conv == [j \in 1..Len(kept) |-> ConvertScalar(p, items[kept[j]], kept[j] - 1)]
             bad == {j \in 1..Len(kept) : ~conv[j].ok}
         IN IF bad # {}
            THEN conv[CHOOSE j \in bad : \A j2 \in bad : j <= j2]
            ELSE IF Len(kept) = 0 THEN Ok(None)
            ELSE Ok(PyTuple([j \in 1..Len(kept) |-> conv[j].val]))
    ELSE ConvertScalar(p, v, NoIndex)

(***************************************************************************)
(* Text helpers for the AccessTime grammar and for List: unicode.split(),  *)
(* unicode.isnumeric(), int() and the comparisons of text and of           *)
(* arbitrary-precision integers, on the characters the model uses.         *)
(***************************************************************************)
\* s.split(c): the fields between the occurrences of c, empty fields kept
RECURSIVE SplitOn(_, _)
SplitOn(s, c) ==
    IF \A i \in 1..Len(s) : s[i] # c THEN <<s>>
    ELSE LET at == CHOOSE i \in 1..Len(s) :
                       s[i] = c /\ \A j \in 1..(i - 1) : s[j] # c
         IN <<SubSeq(s, 1, at - 1)>> \o SplitOn(SubSeq(s, at + 1, Len(s)), c)

\* the fields of s.split(c) that are not empty
DropEmpty(fields) == SelectSeq(fields, LAMBDA f : f # <<>>)

\* s.split(): the runs of characters between blanks
Split(s) == DropEmpty(SplitOn(s, " "))

\* ' '.join(tokens)
RECURSIVE Join(_)
Join(tokens) ==
    IF tokens = <<>> THEN <<>>
    ELSE IF Len(tokens) = 1 THEN tokens[1]
    ELSE tokens[1] \o <<" ">> \o Join(Tail(tokens))

\* t.isnumeric()
IsNumeric(t) == t # <<>> /\ AllDigits(t)

\* int(t) succeeds: t is a decimal literal
IntOk(t) == t # <<>> /\ AllDigits(t)

\* int(t) of a short decimal literal
IntOf(t) == DigitsValue(t, 10)

RECURSIVE StripZeros(_)
StripZeros(t) ==
    IF Len(t) > 1 /\ t[1] = "0" THEN StripZeros(Tail(t)) ELSE t

\* a < b for unicode strings of digits: code point order, a proper prefix
\* being the smaller
RECURSIVE TextLess(_, _)
TextLess(a, b) ==
    IF b = <<>> THEN FALSE
    ELSE IF a = <<>> THEN TRUE
    ELSE IF a[1] # b[1] THEN DigitOf(a[1]) < DigitOf(b[1])
    ELSE TextLess(Tail(a), Tail(b))

\* int(a) < int(b) for decimal literals of any length (Python integers do
\* not overflow): fewer significant digits, or as many and smaller
IntLess(a, b) ==
    LET x == StripZeros(a)
        y == StripZeros(b)
    IN Len(x) < Len(y) \/ (Len(x) = Len(y) /\ TextLess(x, y))

(***************************************************************************)
(* AccessTime.  A _check* method returns None or raises; the model         *)
(* returns "" when the method returns, the message of the ValueError it    *)
(* raises, or IndexError when a token subscript is out of range.           *)
(***************************************************************************)
IndexError == "IndexError"

Txt_absolute == <<"a", "b", "s", "o", "l", "u", "t", "e">>

Txt_periodic == <<"p", "e", "r", "i", "o", "d", "i", "c">>

Txt_yearly == <<"y", "e", "a", "r", "l", "y">>

Txt_monthly == <<"m", "o", "n", "t", "h", "l", "y">>

Txt_weekly == <<"w", "e", "e", "k", "l", "y">>

Txt_daily == <<"d", "a", "i", "l", "y">>

Txt_month == <<"m", "o", "n", "t", "h">>

Txt_week == <<"w", "e", "e", "k">>

Txt_day == <<"d", "a", "y">>

Txt_tilde == <<"~">>

DayNames ==
    {<<"M", "o", "n">>, <<"T", "u", "e">>, <<"W", "e", "d">>, <<"T", "h", "u">>,
     <<"F", "r", "i">>, <<"S", "a", "t">>, <<"S", "u", "n">>}

\* AccessTime._check_HHMM
_check_HHMM(t) ==
    IF Len(t) # 4 THEN "HHMM must be exactly 4 characters long"
    ELSE IF ~IsNumeric(t) THEN "HHMM non-numeric"
    ELSE IF IntOf(SubSeq(t, 1, 2)) > 23 THEN "HH out of range"
    ELSE IF IntOf(SubSeq(t, 3, 4)) > 59 THEN "MM out of range"
    ELSE ""

\* AccessTime._check_dotw
_check_dotw(t) ==
    IF IsNumeric(t)
    THEN IF IntOf(t) < 1 \/ IntOf(t) > 7 THEN "day of the week out of range" ELSE ""
    ELSE IF t \notin DayNames THEN "invalid day of the week" ELSE ""

\* the number of days AccessTime._check_dotm allows in a month
DaysIn(month_num, year) ==
    IF month_num \in {1, 3, 5, 7, 8, 10, 12} THEN 31
    ELSE IF month_num \in {4, 6, 9, 11} THEN 30
    ELSE IF year % 4 = 0 /\ (year % 100 # 0 \/ year % 400 = 0) THEN 29
    ELSE 28

\* AccessTime._check_dotm
_check_dotm(t, month_num, year) ==
    IF ~IsNumeric(t) THEN "day of the month non-numeric"
    ELSE IF month_num \in 1..12 /\ (IntOf(t) < 1 \/ IntOf(t) > DaysIn(month_num, year))
    THEN "day of the month out of range"
    ELSE ""

\* _check_wotm, _check_woty, _check_doty and _check_month_num: a number
\* between 1 and most
CheckNumber(t, most, nonNumeric, outOfRange) ==
    IF ~IsNumeric(t) THEN nonNumeric
    ELSE IF IntOf(t) < 1 \/ IntOf(t) > most THEN outOfRange
    ELSE ""

\* AccessTime._check_wotm
_check_wotm(t) ==
    CheckNumber(t, 6, "week of the month non-numeric", "week of the month out of range")

\* AccessTime._check_woty
_check_woty(t) ==
    CheckNumber(t, 52, "week of the year non-numeric", "week of the year out of range")

\* AccessTime._check_doty
_check_doty(t) ==
    CheckNumber(t, 365, "day of the year non-numeric", "day of the year out of range")

\* AccessTime._check_month_num
_check_month_num(t) ==
    CheckNumber(t, 12, "month number non-numeric", "month number out of range")

\* check_func(v) for the bound method handed to _check_interval; _check_dotm
\* is called with its default month_num=1 and year=4
CheckFunc(f, v) ==
    CASE f = "_check_HHMM" -> _check_HHMM(v)
      [] f = "_check_dotw" -> _check_dotw(v)
      [] f = "_check_dotm" -> _check_dotm(v, 1, 4)
      [] f = "_check_wotm" -> _check_wotm(v)
      [] f = "_check_woty" -> _check_woty(v)
      [] f = "_check_doty" -> _check_doty(v)
      [] f = "_check_month_num" -> _check_month_num(v)

\* the message of the ValueError int() raises on text that is no number
InvalidLiteral == "invalid literal for int() with base 10"

\* two statements in sequence: the error the first one raises, or else the
\* outcome of the rest of the method
OrElse(err, rest) == IF err # "" THEN err ELSE rest

\* `for v in values: check_func(v)` of AccessTime._check_interval
RECURSIVE CheckEach(_, _)
CheckEach(values, f) ==
    IF values = <<>> THEN ""
    ELSE OrElse(CheckFunc(f, Head(values)), CheckEach(Tail(values), f))

\* the body of the loop `for i in intervals` of AccessTime._check_interval
\* once values = i.split('-') is known
CheckValues(values, f) ==
    IF Len(values) > 2 THEN "invalid time range"
    ELSE OrElse(CheckEach(values, f),
                IF Len(values) # 2 THEN ""
                ELSE IF ~IntOk(values[1]) \/ ~IntOk(values[2]) THEN InvalidLiteral
                ELSE IF IntOf(values[1]) > IntOf(values[2]) THEN "invalid time range"
                ELSE "")

\* one pass of the loop `for i in intervals`, up to values = i.split('-')
CheckOneInterval(i, f) ==
    IF i = <<>> THEN "invalid time range" ELSE CheckValues(SplitOn(i, "-"), f)

RECURSIVE CheckIntervals(_, _)
CheckIntervals(intervals, f) ==
    IF intervals = <<>> THEN ""
    ELSE OrElse(CheckOneInterval(Head(intervals), f), CheckIntervals(Tail(intervals), f))

\* AccessTime._check_interval
_check_interval(t, f) == CheckIntervals(SplitOn(t, ","), f)

\* ts[index] exists (index counts from 0 as in the code)
HasToken(ts, index) == index < Len(ts)

\* ts[index]
Token(ts, index) == ts[index + 1]

\* the result of a _check_*_spec method: the error, or the index returned
SpecResult(err, index) == [err |-> err, index |-> index]

\* a statement followed by the rest of a _check_*_spec method
SpecOrElse(err, index, rest) == IF err # "" THEN SpecResult(err, index) ELSE rest

\* AccessTime._check_W_spec
_check_W_spec(ts, index) ==
    IF ~HasToken(ts, index) THEN SpecResult(IndexError, index)
    ELSE IF Token(ts, index) # Txt_day THEN SpecResult("invalid week specifier", index)
    ELSE IF ~HasToken(ts, index + 1) THEN SpecResult(IndexError, index)
    ELSE SpecResult(_check_interval(Token(ts, index + 1), "_check_dotw"), index + 1)

\* AccessTime._check_M_spec
_check_M_spec(ts, index) ==
    IF ~HasToken(ts, index) THEN SpecResult(IndexError, index)
    ELSE IF Token(ts, index) = Txt_week
    THEN IF ~HasToken(ts, index + 1) THEN SpecResult(IndexError, index)
         ELSE SpecOrElse(_check_interval(Token(ts, index + 1), "_check_wotm"), index,
                         _check_W_spec(ts, index + 2))
    ELSE IF Token(ts, index) = Txt_day
    THEN IF ~HasToken(ts, index + 1) THEN SpecResult(IndexError, index)
         ELSE SpecResult(_check_interval(Token(ts, index + 1), "_check_dotm"), index + 1)
    ELSE SpecResult("invalid month specifier", index)

\* AccessTime._check_Y_spec
_check_Y_spec(ts, index) ==
    IF ~HasToken(ts, index) THEN SpecResult(IndexError, index)
    ELSE IF Token(ts, index) = Txt_month
    THEN IF ~HasToken(ts, index + 1) THEN SpecResult(IndexError, index)
         ELSE SpecOrElse(_check_interval(Token(ts, index + 1), "_check_month_num"), index,
                         IF ~IntOk(Token(ts, index + 1))
                         THEN SpecResult(InvalidLiteral, index)
                         ELSE _check_M_spec(ts, index + 2))
    ELSE IF Token(ts, index) = Txt_week
    THEN IF ~HasToken(ts, index + 1) THEN SpecResult(IndexError, index)
         ELSE SpecOrElse(_check_interval(Token(ts, index + 1), "_check_woty"), index,
                         _check_W_spec(ts, index + 2))
    ELSE IF Token(ts, index) = Txt_day
    THEN IF ~HasToken(ts, index + 1) THEN SpecResult(IndexError, index)
         ELSE SpecResult(_check_interval(Token(ts, index + 1), "_check_doty"), index + 1)
    ELSE SpecResult("invalid year specifier", index)

\* the HHMM part of a generalized time: t[8:12], or t[8:10] + '00'
StampHHMM(t) ==
    IF Len(t) >= 12 THEN SubSeq(t, 9, 12) ELSE SubSeq(t, 9, 10) \o <<"0", "0">>

\* AccessTime._check_generalized
_check_generalized(t) ==
    IF Len(t) \notin {10, 12, 14} THEN "incomplete generalized time"
    ELSE IF ~IsNumeric(t) THEN "time non-numeric"
    ELSE OrElse(_check_month_num(SubSeq(t, 5, 6)),
         OrElse(_check_dotm(SubSeq(t, 7, 8), IntOf(SubSeq(t, 5, 6)), IntOf(SubSeq(t, 1, 4))),
         OrElse(_check_HHMM(StampHHMM(t)),
                IF Len(t) = 14 /\ IntOf(SubSeq(t, 13, 14)) > 60
                THEN "seconds out of range"
                ELSE "")))

\* the `absolute` branch of AccessTime._check without the test of len(ts):
\* a missing token is found when it is subscripted
CheckAbsolute_NoLengthTest(ts) ==
    IF ~HasToken(ts, 1) THEN IndexError
    ELSE OrElse(_check_generalized(ts[2]),
                IF ~HasToken(ts, 2) THEN IndexError
                ELSE IF ts[3] # Txt_tilde THEN "invalid time range separator"
                ELSE IF ~HasToken(ts, 3) THEN IndexError
                ELSE OrElse(_check_generalized(ts[4]),
                            IF ~IntLess(ts[2], ts[4]) THEN "invalid time range" ELSE ""))

\* the `absolute` branch of AccessTime._check
CheckAbsolute(ts) ==
    IF Len(ts) # 4
    THEN "invalid format, must be 'absolute generalizedTime ~ generalizedTime'"
    ELSE OrElse(_check_generalized(ts[2]),
                IF ts[3] # Txt_tilde THEN "invalid time range separator"
                ELSE OrElse(_check_generalized(ts[4]),
                            IF ~IntLess(ts[2], ts[4]) THEN "invalid time range" ELSE ""))

\* the `periodic` branch of AccessTime._check: the period's specifier, then
\* the time of day at ts[index + 1]
CheckPeriodic(ts) ==
    LET TimeOfDay(r) ==
            IF r.err # "" THEN r.err
            ELSE IF ~HasToken(ts, r.index + 1) THEN IndexError
            ELSE _check_interval(Token(ts, r.index + 1), "_check_HHMM")
    IN IF ~HasToken(ts, 1) THEN IndexError
       ELSE TimeOfDay(
                IF Token(ts, 1) = Txt_yearly THEN _check_Y_spec(ts, 2)
                ELSE IF Token(ts, 1) = Txt_monthly THEN _check_M_spec(ts, 2)
                ELSE IF Token(ts, 1) = Txt_weekly THEN _check_W_spec(ts, 2)
                ELSE IF Token(ts, 1) = Txt_daily THEN SpecResult("", 1)
                ELSE SpecResult("period must be yearly, monthy or daily, got '%s'", 0))

\* AccessTime._check once ts = time.split() is known
CheckTokens(ts) ==
    IF ~HasToken(ts, 0) THEN IndexError
    ELSE IF Token(ts, 0) = Txt_absolute THEN CheckAbsolute(ts)
    ELSE IF Token(ts, 0) = Txt_periodic THEN CheckPeriodic(ts)
    ELSE "time neither absolute or periodic"

\* AccessTime._check
_check(time) == CheckTokens(Split(time))

\* AccessTime._rule_required: the message of the ValidationError it raises,
\* or "" when it returns None
_rule_required(time) ==
    LET Caught(err) == IF err = IndexError THEN "incomplete time value" ELSE err
    IN Caught(_check(time))

(***************************************************************************)
(* Rules.  A rule is called as rule(ugettext, value) and returns None      *)
(* (NoMsg) or an error message.                                            *)
(***************************************************************************)
\* the constraint keywords of a class that have a _rule_<key> method, in the
\* order of the class attribute `kwargs`
ConstraintKeys(klass) ==
    CASE klass \in {"Str", "Bytes"} -> <<"minlength", "maxlength", "length">>
      [] klass \in {"Int", "Float"} -> <<"minvalue", "maxvalue">>
      [] klass = "AccessTime" -> <<"required", "minlength", "maxlength", "length">>
      [] klass = "StrEnum" -> <<"values">>
      [] OTHER -> <<>>

RuleOfKey(key) ==
    CASE key = "minlength" -> "_rule_minlength"
      [] key = "maxlength" -> "_rule_maxlength"
      [] key = "length" -> "_rule_length"
      [] key = "minvalue" -> "_rule_minvalue"
      [] key = "maxvalue" -> "_rule_maxvalue"
      [] key = "required" -> "_rule_required"
      [] key = "values" -> "_rule_values"

RECURSIVE ClassRulesFrom(_, _)
ClassRulesFrom(p, keys) ==
    IF keys = <<>> THEN <<>>
    ELSE IF Head(keys) = "required" \/ p[Head(keys)] # None
         THEN <<RuleOfKey(Head(keys))>> \o ClassRulesFrom(p, Tail(keys))
         ELSE ClassRulesFrom(p, Tail(keys))

\* self.class_rules as built by the loop over self.kwargs in Param.__init__
ClassRules(p) == ClassRulesFrom(p, ConstraintKeys(p.klass))

\* self.all_rules with the caller's rules ahead of the class rules
AllRules_ExtraFirst(p) == p.rules \o ClassRules(p)

\* self.all_rules = self.class_rules + self.rules
AllRules(p) == ClassRules(p) \o p.rules

\* the message of a length rule: Bytes counts bytes, Str counts characters
LengthMsg(p, bytesMsg, charsMsg) == IF p.klass = "Bytes" THEN bytesMsg ELSE charsMsg

\* the message of a value rule: Float formats the bound with %f
ValueMsg(p, intMsg, floatMsg) == IF p.klass = "Float" THEN floatMsg ELSE intMsg

\* the message of Enum._rule_values, which carries self.values
ValuesMsg(values) == [msg |-> "must be one of %(values)r", arg |-> 0, values |-> values]

\* Enum._rule_values accepting every value
_rule_values_Any(p, v) == NoMsg

\* Enum._rule_values
_rule_values(p, v) ==
    IF \A i \in 1..Len(p.values.items) : p.values.items[i] # v
    THEN ValuesMsg(p.values)
    ELSE NoMsg

\* rule(ugettext, value) for the class rules and for the extra rules of the
\* model; for a rule that raises, the message of the exception:
\*   rule_pass   accepts every value
\*   rule_fail   rejects every value
\*   rule_small  rejects text longer than one character and numbers above 1
RuleCall(p, rule, v) ==
    CASE rule = "_rule_minlength" ->
            IF Len(v.s) < p.minlength.n
            THEN Msg(LengthMsg(p, "must be at least %(minlength)d bytes",
                               "must be at least %(minlength)d characters"),
                     p.minlength.n)
            ELSE NoMsg
      [] rule = "_rule_maxlength" ->
            IF Len(v.s) > p.maxlength.n
            THEN Msg(LengthMsg(p, "can be at most %(maxlength)d bytes",
                               "can be at most %(maxlength)d characters"),
                     p.maxlength.n)
            ELSE NoMsg
      [] rule = "_rule_length" ->
            IF Len(v.s) # p.length.n
            THEN Msg(LengthMsg(p, "must be exactly %(length)d bytes",
                               "must be exactly %(length)d characters"),
                     p.length.n)
            ELSE NoMsg
      [] rule = "_rule_minvalue" ->
            IF v.n < p.minvalue.n
            THEN Msg(ValueMsg(p, "must be at least %(minvalue)d",
                              "must be at least %(minvalue)f"),
                     p.minvalue.n)
            ELSE NoMsg
      [] rule = "_rule_maxvalue" ->
            IF v.n > p.maxvalue.n
            THEN Msg(ValueMsg(p, "can be at most %(maxvalue)d",
                              "can be at most %(maxvalue)f"),
                     p.maxvalue.n)
            ELSE NoMsg
      [] rule = "_rule_required" -> Msg(_rule_required(v.s), 0)
      [] rule = "_rule_values" -> _rule_values(p, v)
      [] rule = "rule_pass" -> NoMsg
      [] rule = "rule_fail" -> Msg("rule_fail", 0)
      [] rule = "rule_small" ->
            IF Len(v.s) > 1 \/ v.n > 1 THEN Msg("rule_small", 0) ELSE NoMsg

\* one entry of the call log: the callable and its positional arguments
CallEntry(fn, args) == [fn |-> fn, args |-> args]

(***************************************************************************)
(* validate.  The operators return the outcome together with the calls     *)
(* made to rules, in call order.                                           *)
(***************************************************************************)
\* a class rule that raises its ValidationError itself instead of returning
\* the message
RuleRaises(rule) == rule = "_rule_required"

\* the loop `for rule in self.all_rules` of Param._validate_scalar
RECURSIVE RunRules(_, _, _, _, _)
RunRules(p, rules, v, index, log) ==
    IF rules = <<>> THEN [out |-> Ok(None), calls |-> log]
    ELSE LET rule == Head(rules)
             log2 == Append(log, CallEntry(rule, <<v>>))
             Called(error) ==
                 IF error # NoMsg /\ RuleRaises(rule)
                 THEN [out |-> Raise(ValidationError(p.cli_name, None, NoIndex, error, "")),
                       calls |-> log2]
                 ELSE IF error # NoMsg
                 THEN [out |-> Raise(ValidationError(
                                   IF p.cli_name # "" THEN p.cli_name ELSE p.name,
                                   v, index, error, rule)),
                       calls |-> log2]
                 ELSE RunRules(p, Tail(rules), v, index, log2)
         IN Called(RuleCall(p, rule, v))

\* Param._validate_scalar naming the parameter by self.name when a rule fails
ParamValidateScalar_NameOnly(p, v, index, log) ==
    IF v.k # TypeOf(p.klass)
    THEN [out |-> Raise(ValidationError(p.name, None, NoIndex,
                                        Msg("need a %r; got %r (a %r)", 0), "")),
          calls |-> log]
    ELSE RunRules([p EXCEPT !.cli_name = ""], AllRules(p), v, index, log)

\* Param._validate_scalar
ParamValidateScalar(p, v, index, log) ==
    IF v.k # TypeOf(p.klass)
    THEN [out |-> Raise(ValidationError(p.name, None, NoIndex,
                                        Msg("need a %r; got %r (a %r)", 0), "")),
          calls |-> log]
    ELSE RunRules(p, AllRules(p), v, index, log)

\* the loop `for rule in self.all_rules` of List._validate_scalar, which
\* names the parameter by self.name
RECURSIVE ListRunRules(_, _, _, _, _)
ListRunRules(p, rules, v, index, log) ==
    IF rules = <<>> THEN [out |-> Ok(None), calls |-> log]
    ELSE LET rule == Head(rules)
             log2 == Append(log, CallEntry(rule, <<v>>))
             Called(error) ==
                 IF error # NoMsg
                 THEN [out |-> Raise(ValidationError(p.name, v, index, error, rule)),
                       calls |-> log2]
                 ELSE ListRunRules(p, Tail(rules), v, index, log2)
         IN Called(RuleCall(p, rule, v))

\* List._validate_scalar with the type check of Param._validate_scalar
ListValidateScalar_TypeChecked(p, v, index, log) ==
    IF v.k # TypeOf(p.klass)
    THEN [out |-> Raise(ValidationError(p.name, None, NoIndex,
                                        Msg("need a %r; got %r (a %r)", 0), "")),
          calls |-> log]
    ELSE ListRunRules(p, AllRules(p), v, index, log)

\* List._validate_scalar
ListValidateScalar(p, v, index, log) == ListRunRules(p, AllRules(p), v, index, log)

\* self._validate_scalar(value, index), dispatched on the class
ValidateScalar(p, v, index, log) ==
    IF p.klass = "List" THEN ListValidateScalar(p, v, index, log)
    ELSE ParamValidateScalar(p, v, index, log)

\* the loop `for (i, v) in enumerate(value)` of Param.validate
RECURSIVE ValidateItems(_, _, _, _)
ValidateItems(p, items, i, log) ==
    IF i > Len(items) THEN [out |-> Ok(None), calls |-> log]
    ELSE LET Validated(r) ==
                 IF r.out.ok THEN ValidateItems(p, items, i + 1, r.calls) ELSE r
         IN Validated(ValidateScalar(p, items[i], i - 1, log))

\* Param.validate naming the parameter by self.name in every context
Validate_NameOnly(p, v, ctx) ==
    IF v = None
    THEN IF p.required
         THEN [out |-> Raise(RequirementError(p.name)), calls |-> <<>>]
         ELSE [out |-> Ok(None), calls |-> <<>>]
    ELSE IF p.query THEN [out |-> Ok(None), calls |-> <<>>]
    ELSE IF p.multivalue
    THEN IF v.k # "tuple"
         THEN [out |-> Raise(StandardError("TypeError", "value: need a tuple")),
               calls |-> <<>>]
         ELSE IF Len(v.items) < 1
         THEN [out |-> Raise(StandardError("ValueError",
                                 "value: empty tuple must be converted to None")),
               calls |-> <<>>]
         ELSE ValidateItems(p, v.items, 1, <<>>)
    ELSE ValidateScalar(p, v, NoIndex, <<>>)

\* Param.validate without the `if self.required` branch
Validate_NoRequired(p, v, ctx) ==
    IF v = None THEN [out |-> Ok(None), calls |-> <<>>]
    ELSE IF p.query THEN [out |-> Ok(None), calls |-> <<>>]
    ELSE IF p.multivalue
    THEN IF v.k # "tuple"
         THEN [out |-> Raise(StandardError("TypeError", "value: need a tuple")),
               calls |-> <<>>]
         ELSE IF Len(v.items) < 1
         THEN [out |-> Raise(StandardError("ValueError",
                                 "value: empty tuple must be converted to None")),
               calls |-> <<>>]
         ELSE ValidateItems(p, v.items, 1, <<>>)
    ELSE ValidateScalar(p, v, NoIndex, <<>>)

\* Param.validate without the `if self.query: return` branch
Validate_NoQuery(p, v, ctx) ==
    IF v = None
    THEN IF p.required
         THEN IF ctx = "cli"
              THEN [out |-> Raise(RequirementError(p.cli_name)), calls |-> <<>>]
              ELSE [out |-> Raise(RequirementError(p.name)), calls |-> <<>>]
         ELSE [out |-> Ok(None), calls |-> <<>>]
    ELSE IF p.multivalue
    THEN IF v.k # "tuple"
         THEN [out |-> Raise(StandardError("TypeError", "value: need a tuple")),
               calls |-> <<>>]
         ELSE IF Len(v.items) < 1
         THEN [out |-> Raise(StandardError("ValueError",
                                 "value: empty tuple must be converted to None")),
               calls |-> <<>>]
         ELSE ValidateItems(p, v.items, 1, <<>>)
    ELSE ValidateScalar(p, v, NoIndex, <<>>)

\* Param.validate with the `if self.query` test ahead of the
\* `if value is None` test
Validate_QueryFirst(p, v, ctx) ==
    IF p.query THEN [out |-> Ok(None), calls |-> <<>>]
    ELSE IF v = None
    THEN IF p.required
         THEN IF ctx = "cli"
              THEN [out |-> Raise(RequirementError(p.cli_name)), calls |-> <<>>]
              ELSE [out |-> Raise(RequirementError(p.name)), calls |-> <<>>]
         ELSE [out |-> Ok(None), calls |-> <<>>]
    ELSE IF p.multivalue
    THEN IF v.k # "tuple"
         THEN [out |-> Raise(StandardError("TypeError", "value: need a tuple")),
               calls |-> <<>>]
         ELSE IF Len(v.items) < 1
         THEN [out |-> Raise(StandardError("ValueError",
                                 "value: empty tuple must be converted to None")),
               calls |-> <<>>]
         ELSE ValidateItems(p, v.items, 1, <<>>)
    ELSE ValidateScalar(p, v, NoIndex, <<>>)

\* Param.validate
Validate(p, v, ctx) ==
    IF v = None
    THEN IF p.required
         THEN IF ctx = "cli"
              THEN [out |-> Raise(RequirementError(p.cli_name)), calls |-> <<>>]
              ELSE [out |-> Raise(RequirementError(p.name)), calls |-> <<>>]
         ELSE [out |-> Ok(None), calls |-> <<>>]
    ELSE IF p.query THEN [out |-> Ok(None), calls |-> <<>>]
    ELSE IF p.multivalue
    THEN IF v.k # "tuple"
         THEN [out |-> Raise(StandardError("TypeError", "value: need a tuple")),
               calls |-> <<>>]
         ELSE IF Len(v.items) < 1
         THEN [out |-> Raise(StandardError("ValueError",
                                 "value: empty tuple must be converted to None")),
               calls |-> <<>>]
         ELSE ValidateItems(p, v.items, 1, <<>>)
    ELSE ValidateScalar(p, v, NoIndex, <<>>)

(***************************************************************************)
(* Default resolution.                                                     *)
(***************************************************************************)
\* DefaultFrom.__call__ without the `if None in vals` test
DefaultFromCall_NoNoneTest(df, bindings) ==
    LET vals == [i \in 1..Len(df.keys) |-> KwGet(bindings, df.keys[i])]
        r == CallbackCall(df.callback, vals)
    IN [out |-> IF r.ok THEN r ELSE Ok(None),
        calls |-> <<CallEntry("callback", vals)>>]

\* DefaultFrom.__call__
DefaultFromCall(df, bindings) ==
    LET vals == [i \in 1..Len(df.keys) |-> KwGet(bindings, df.keys[i])]
    IN IF \E i \in 1..Len(vals) : vals[i] = None
       THEN [out |-> Ok(None), calls |-> <<>>]
       ELSE LET r == CallbackCall(df.callback, vals)
            IN [out |-> IF r.ok THEN r ELSE Ok(None),
                calls |-> <<CallEntry("callback", vals)>>]

\* self._get_default as chosen in Param.__init__
GetDefaultHook(p) ==
    IF IsCallable(p.default_from) THEN p.default_from
    ELSE IF IsCallable(p.create_default) THEN p.create_default
    ELSE None

\* self._get_default(**kw) with a failure of create_default swallowed
HookCall_SwallowFactory(p, bindings) ==
    IF GetDefaultHook(p).k = "DefaultFrom"
    THEN DefaultFromCall(GetDefaultHook(p), bindings)
    ELSE [out |-> IF FactoryCall(GetDefaultHook(p), bindings).ok
                  THEN FactoryCall(GetDefaultHook(p), bindings)
                  ELSE Ok(None),
          calls |-> <<CallEntry("create_default", <<bindings>>)>>]

\* self._get_default(**kw)
HookCall(p, bindings) ==
    IF GetDefaultHook(p).k = "DefaultFrom"
    THEN DefaultFromCall(GetDefaultHook(p), bindings)
    ELSE [out |-> FactoryCall(GetDefaultHook(p), bindings),
          calls |-> <<CallEntry("create_default", <<bindings>>)>>]

\* Param.get_default without the try/except around convert(normalize(default))
GetDefault_NoTry(p, bindings) ==
    IF GetDefaultHook(p) # None
    THEN LET h == HookCall(p, bindings)
         IN IF ~h.out.ok THEN h
            ELSE IF h.out.val # None
            THEN [out |-> Convert(p, Normalize(p, h.out.val)), calls |-> h.calls]
            ELSE [out |-> Ok(p.default), calls |-> h.calls]
    ELSE [out |-> Ok(p.default), calls |-> <<>>]

\* Param.get_default returning the hook's value without normalize and convert
GetDefault_AsIs(p, bindings) ==
    IF GetDefaultHook(p) # None
    THEN LET h == HookCall(p, bindings)
         IN IF ~h.out.ok THEN h
            ELSE IF h.out.val # None
            THEN [out |-> h.out, calls |-> h.calls]
            ELSE [out |-> Ok(p.default), calls |-> h.calls]
    ELSE [out |-> Ok(p.default), calls |-> <<>>]

\* Param.get_default
GetDefault(p, bindings) ==
    IF GetDefaultHook(p) # None
    THEN LET Converted(c, log) ==
                 IF c.ok THEN [out |-> c, calls |-> log]
                 ELSE [out |-> Ok(p.default), calls |-> log]
             Hooked(h) ==
                 IF ~h.out.ok THEN h
                 ELSE IF h.out.val # None
                 THEN Converted(Convert(p, Normalize(p, h.out.val)), h.calls)
                 ELSE [out |-> Ok(p.default), calls |-> h.calls]
         IN Hooked(HookCall(p, bindings))
    ELSE [out |-> Ok(p.default), calls |-> <<>>]

(***************************************************************************)
(* Construction: the checks of Param.__init__, Data.__init__ and           *)
(* Int.__init__ on the keyword values.  InitError is the exception type    *)
(* the constructor raises, or "" when the instance is built and locked.    *)
(***************************************************************************)
\* isinstance(value, kind) for the `default` keyword: a tuple when
\* multivalue, else the class type (bool is a subclass of int)
DefaultKindOk(p) ==
    IF p.multivalue THEN p.default.k = "tuple"
    ELSE IF p.klass = "Int" THEN p.default.k \in {"int", "bool"}
    ELSE p.default.k = TypeOf(p.klass)

\* the checks of Param.__init__
ParamInitError(p) ==
    IF p.default # None /\ ~DefaultKindOk(p) THEN "TypeError"
    ELSE IF IsCallable(p.default_from) /\ IsCallable(p.create_default) THEN "ValueError"
    ELSE ""

\* the checks Data.__init__ adds for Bytes and Str
DataInitError(p) ==
    IF ~(p.length = None \/ (p.minlength = None /\ p.maxlength = None)) THEN "ValueError"
    ELSE IF p.minlength # None /\ p.minlength.n < 1 THEN "ValueError"
    ELSE IF p.maxlength # None /\ p.maxlength.n < 1 THEN "ValueError"
    ELSE IF p.minlength # None /\ p.maxlength # None /\ p.minlength.n >= p.maxlength.n
    THEN "ValueError"
    ELSE ""

\* the check Int.__init__ adds
IntInitError(p) ==
    IF p.minvalue # None /\ p.maxvalue # None /\ p.minvalue.n > p.maxvalue.n
    THEN "ValueError"
    ELSE ""

InitError(p) ==
    IF ParamInitError(p) # "" THEN ParamInitError(p)
    ELSE IF p.klass \in {"Str", "Bytes"} THEN DataInitError(p)
    ELSE IF p.klass = "Int" THEN IntInitError(p)
    ELSE ""

(***************************************************************************)
(* Construction.  A spec or keyword text is a sequence of chunks: the run  *)
(* of name characters is one chunk ("login") and every other character is  *)
(* a chunk of its own, so that <<"login", "?">> is the spec 'login?'.      *)
(* Attribute names and context tags are the chunk itself.                  *)
(***************************************************************************)
PyFrozenset(elems) == [k |-> "frozenset", elems |-> elems]

\* the result of a constructor step: the value built, or the exception
Built(v) == [ok |-> TRUE, val |-> v]

\* parse_param_spec with the entries of '*' and '+' exchanged
parse_param_spec_Swapped(spec) ==
    IF spec.k # "str"
    THEN Raise(StandardError("TypeError", "spec: need a str"))
    ELSE IF spec.s = <<>>
    THEN Raise(StandardError("IndexError", "string index out of range"))
    ELSE LET end == spec.s[Len(spec.s)]
             stem == SubSeq(spec.s, 1, Len(spec.s) - 1)
         IN IF end = "?"
            THEN Built([name |-> stem, required |-> FALSE, multivalue |-> FALSE])
            ELSE IF end = "+"
            THEN Built([name |-> stem, required |-> FALSE, multivalue |-> TRUE])
            ELSE IF end = "*"
            THEN Built([name |-> stem, required |-> TRUE, multivalue |-> TRUE])
            ELSE Built([name |-> spec.s, required |-> TRUE, multivalue |-> FALSE])

\* parse_param_spec
parse_param_spec(spec) ==
    IF spec.k # "str"
    THEN Raise(StandardError("TypeError", "spec: need a str"))
    ELSE IF spec.s = <<>>
    THEN Raise(StandardError("IndexError", "string index out of range"))
    ELSE LET end == spec.s[Len(spec.s)]
             stem == SubSeq(spec.s, 1, Len(spec.s) - 1)
         IN IF end = "?"
            THEN Built([name |-> stem, required |-> FALSE, multivalue |-> FALSE])
            ELSE IF end = "*"
            THEN Built([name |-> stem, required |-> FALSE, multivalue |-> TRUE])
            ELSE IF end = "+"
            THEN Built([name |-> stem, required |-> TRUE, multivalue |-> TRUE])
            ELSE Built([name |-> spec.s, required |-> TRUE, multivalue |-> FALSE])

\* one entry (key, kind, default) of the class attribute `kwargs`
Kwarg(key, kind, default) == [key |-> key, kind |-> kind, default |-> default]

\* Param.kwargs, the keywords the model uses
ParamKwargs ==
    <<Kwarg("cli_name", "str", None),
      Kwarg("cli_short_name", "str", None),
      Kwarg("required", "bool", PyBool(TRUE)),
      Kwarg("multivalue", "bool", PyBool(FALSE)),
      Kwarg("normalizer", "callable", None),
      Kwarg("default_from", "DefaultFrom", None),
      Kwarg("create_default", "callable", None),
      Kwarg("query", "bool", PyBool(FALSE)),
      Kwarg("include", "frozenset", None),
      Kwarg("exclude", "frozenset", None)>>

\* the entries a subclass adds to Param.kwargs
ClassKwargs(klass) ==
    CASE klass \in {"Str", "Bytes", "AccessTime"} ->
            <<Kwarg("minlength", "int", None),
              Kwarg("maxlength", "int", None),
              Kwarg("length", "int", None)>>
      [] klass = "Int" ->
            <<Kwarg("minvalue", "int", None),
              Kwarg("maxvalue", "int", PyInt(MAXINT))>>
      [] klass = "Float" ->
            <<Kwarg("minvalue", "float", None),
              Kwarg("maxvalue", "float", None)>>
      [] klass = "StrEnum" -> <<Kwarg("values", "tuple", PyTuple(<<>>))>>
      [] OTHER -> <<>>

\* self.kwargs after Param.__init__ has appended the 'default' entry
Kwargs(klass, kwds) ==
    ParamKwargs \o ClassKwargs(klass)
        \o <<Kwarg("default",
                   IF kwds.multivalue = Absent \/ kwds.multivalue.n # 0
                   THEN "tuple" ELSE TypeOf(klass),
                   None)>>

\* every keyword a constructor call of the model can carry
CtorKeys ==
    {"cli_name", "cli_short_name", "required", "multivalue", "normalizer",
     "default_from", "create_default", "query", "include", "exclude",
     "minlength", "maxlength", "length", "minvalue", "maxvalue", "values",
     "default"}

\* a constructor call without keywords
NoKw == [key \in CtorKeys |-> Absent]

\* the keys of kwargs
KeysOf(kwargs) == {kwargs[i].key : i \in 1..Len(kwargs)}

\* kw.get(key, default)
KwDefault(kwds, key, default) == IF kwds[key] = Absent THEN default ELSE kwds[key]

\* the frozenset coercion of the type-check loop
Coerce(v, kind) ==
    IF kind = "frozenset" /\ v.k \in {"list", "tuple"}
    THEN PyFrozenset({v.items[i] : i \in 1..Len(v.items)})
    ELSE IF kind = "frozenset" /\ v.k = "str" THEN PyFrozenset({v})
    ELSE v

\* isinstance(value, kind), or callable(value) when kind is callable
KindOk(v, kind) ==
    IF kind = "callable" THEN IsCallable(v)
    ELSE v.k = kind \/ (kind = "int" /\ v.k = "bool")

\* the argument names DefaultFrom.__init__ reads from the callback's code
\* object when no keys are given
CallbackKeys(callback) ==
    IF callback = "login" THEN <<"first", "last">> ELSE <<"x">>

\* the value setattr(self, key, value) stores for each entry of kwargs
Attrs(kwargs, kwds) ==
    [key \in KeysOf(kwargs) |->
        LET e == kwargs[CHOOSE i \in 1..Len(kwargs) : kwargs[i].key = key]
        IN Coerce(KwDefault(kwds, key, e.default), e.kind)]

\* the entries of kwargs whose value fails the type check, by position
BadKinds(kwargs, attrs) ==
    {i \in 1..Len(kwargs) :
        /\ attrs[kwargs[i].key] # None
        /\ ~KindOk(attrs[kwargs[i].key], kwargs[i].kind)}

\* the attributes of the instance once the loop over self.kwargs has run;
\* an attribute the class does not have reads None.  clonekw is
\* self.__clonekw, the keyword bag with the merged values
Instance(klass, name, attrs, rules, clonekw) ==
    LET at(key) == IF key \in DOMAIN attrs THEN attrs[key] ELSE None
    IN [klass |-> klass, name |-> name[1], cli_name |-> attrs.cli_name.s[1],
        cli_short_name |-> attrs.cli_short_name,
        required |-> attrs.required.n # 0,
        multivalue |-> attrs.multivalue.n # 0,
        query |-> attrs.query.n # 0,
        normalizer |-> attrs.normalizer,
        default_from |-> attrs.default_from,
        create_default |-> attrs.create_default,
        default |-> attrs.default,
        include |-> attrs.include, exclude |-> attrs.exclude,
        minlength |-> at("minlength"), maxlength |-> at("maxlength"),
        length |-> at("length"),
        minvalue |-> at("minvalue"), maxvalue |-> at("maxvalue"),
        values |-> at("values"),
        rules |-> rules, clonekw |-> clonekw]

\* Param.__init__ with both default hooks allowed together
ParamInit_NoHookCheck(klass, spec, rules, kw0) ==
    LET parsed == parse_param_spec(spec)
    IN IF ~parsed.ok THEN parsed
       ELSE
       LET kw1 == [kw0 EXCEPT
                     !.required = IF @ = Absent
                                  THEN PyBool(parsed.val.required) ELSE @,
                     !.multivalue = IF @ = Absent
                                    THEN PyBool(parsed.val.multivalue) ELSE @]
           name == parsed.val.name
           kwargs == Kwargs(klass, kw1)
           extra == {key \in CtorKeys : kw0[key] # Absent /\ key \notin KeysOf(kwargs)}
           df == KwGet(kw1, "default_from")
           kw2 == [kw1 EXCEPT
                     !.cli_name = IF KwGet(kw1, "cli_name") = None
                                  THEN PyStr(name) ELSE @,
                     !.default_from = IF df.k = "function"
                                      THEN DefaultFrom(df.name, CallbackKeys(df.name))
                                      ELSE @]
           attrs == Attrs(kwargs, kw2)
       IN IF extra # {}
          THEN Raise(StandardError("TypeError", "takes no such kwargs"))
          ELSE IF BadKinds(kwargs, attrs) # {}
          THEN Raise(StandardError("TypeError", "need a %r; got %r (a %r)"))
          ELSE IF attrs.include # None /\ attrs.exclude # None
          THEN Raise(StandardError("ValueError", "cannot have both include and exclude"))
          ELSE IF attrs.cli_short_name # None /\ Len(attrs.cli_short_name.s) # 1
          THEN Raise(StandardError("ValueError",
                                   "cli_short_name can only be a single character"))
          ELSE Built(Instance(klass, name, attrs, rules, kw2))

\* Param.__init__
ParamInit(klass, spec, rules, kw0) ==
    LET parsed == parse_param_spec(spec)
    IN IF ~parsed.ok THEN parsed
       ELSE
       LET kw1 == [kw0 EXCEPT
                     !.required = IF @ = Absent
                                  THEN PyBool(parsed.val.required) ELSE @,
                     !.multivalue = IF @ = Absent
                                    THEN PyBool(parsed.val.multivalue) ELSE @]
           name == parsed.val.name
           kwargs == Kwargs(klass, kw1)
           extra == {key \in CtorKeys : kw0[key] # Absent /\ key \notin KeysOf(kwargs)}
           df == KwGet(kw1, "default_from")
           kw2 == [kw1 EXCEPT
                     !.cli_name = IF KwGet(kw1, "cli_name") = None
                                  THEN PyStr(name) ELSE @,
                     !.default_from = IF df.k = "function"
                                      THEN DefaultFrom(df.name, CallbackKeys(df.name))
                                      ELSE @]
           attrs == Attrs(kwargs, kw2)
       IN IF extra # {}
          THEN Raise(StandardError("TypeError", "takes no such kwargs"))
          ELSE IF BadKinds(kwargs, attrs) # {}
          THEN Raise(StandardError("TypeError", "need a %r; got %r (a %r)"))
          ELSE IF IsCallable(attrs.default_from) /\ IsCallable(attrs.create_default)
          THEN Raise(StandardError("ValueError",
                                   "cannot have both default_from and create_default"))
          ELSE IF attrs.include # None /\ attrs.exclude # None
          THEN Raise(StandardError("ValueError", "cannot have both include and exclude"))
          ELSE IF attrs.cli_short_name # None /\ Len(attrs.cli_short_name.s) # 1
          THEN Raise(StandardError("ValueError",
                                   "cli_short_name can only be a single character"))
          ELSE Built(Instance(klass, name, attrs, rules, kw2))

\* a > b as Python 2 orders an int or float against None: None is smaller
\* than every number
PyGreater(a, b) ==
    IF a = None THEN FALSE ELSE IF b = None THEN TRUE ELSE a.n > b.n

\* the checks Data.__init__ makes after Param.__init__, without the
\* minlength == maxlength branch
DataInitMessage_NoEqual(p) ==
    IF ~(p.length = None \/ (p.minlength = None /\ p.maxlength = None))
    THEN "cannot mix length with minlength or maxlength"
    ELSE IF p.minlength # None /\ p.minlength.n < 1 THEN "minlength must be >= 1"
    ELSE IF p.maxlength # None /\ p.maxlength.n < 1 THEN "maxlength must be >= 1"
    ELSE IF p.minlength # None /\ p.maxlength # None
    THEN IF p.minlength.n > p.maxlength.n THEN "minlength > maxlength"
         ELSE ""
    ELSE ""

\* the checks Data.__init__ makes after Param.__init__: the message of the
\* ValueError, or "" when there is none
DataInitMessage(p) ==
    IF ~(p.length = None \/ (p.minlength = None /\ p.maxlength = None))
    THEN "cannot mix length with minlength or maxlength"
    ELSE IF p.minlength # None /\ p.minlength.n < 1 THEN "minlength must be >= 1"
    ELSE IF p.maxlength # None /\ p.maxlength.n < 1 THEN "maxlength must be >= 1"
    ELSE IF p.minlength # None /\ p.maxlength # None
    THEN IF p.minlength.n > p.maxlength.n THEN "minlength > maxlength"
         ELSE IF p.minlength.n = p.maxlength.n
         THEN "minlength == maxlength; use length=%d instead"
         ELSE ""
    ELSE ""

\* the check of Int.__init__ and Float.__init__ with the bounds compared
\* the other way round
NumberInitMessage_Swapped(p) ==
    IF PyGreater(p.maxvalue, p.minvalue) /\ (p.minvalue # None /\ p.maxvalue # None)
    THEN "minvalue > maxvalue"
    ELSE ""

\* the check Int.__init__ and Float.__init__ make after Param.__init__
NumberInitMessage(p) ==
    IF PyGreater(p.minvalue, p.maxvalue) /\ (p.minvalue # None /\ p.maxvalue # None)
    THEN "minvalue > maxvalue"
    ELSE ""

\* the loop of Enum.__init__ over self.values: some value is not of the
\* class type
EnumInitBad(p) ==
    \E i \in 1..Len(p.values.items) : p.values.items[i].k # TypeOf(p.klass)

\* the constructor of each class: the keyword changes and the checks the
\* subclass makes around Param.__init__
Construct(klass, spec, rules, kwds) ==
    LET Checked(base) ==
            IF ~base.ok THEN base
            ELSE IF klass \in {"Str", "Bytes", "AccessTime"} /\ DataInitMessage(base.val) # ""
            THEN Raise(StandardError("ValueError", DataInitMessage(base.val)))
            ELSE IF klass \in {"Int", "Float"} /\ NumberInitMessage(base.val) # ""
            THEN Raise(StandardError("ValueError", NumberInitMessage(base.val)))
            ELSE IF klass = "StrEnum" /\ EnumInitBad(base.val)
            THEN Raise(StandardError("TypeError", "need a %r; got %r (a %r)"))
            ELSE base
    IN Checked(ParamInit(klass, spec, rules,
                         IF klass = "List"
                         THEN [kwds EXCEPT !.multivalue = PyBool(TRUE)]
                         ELSE kwds))

\* kw.update(overrides)
KwUpdate(kwds, overrides) ==
    [key \in {k \in DOMAIN overrides : overrides[k] # Absent} |-> overrides[key]]
        @@ kwds

\* Param.clone_retype rebuilding from the keywords without the flags merged
\* in from the spec
clone_retype_Unmerged(p, name, klass, overrides) ==
    Construct(klass, PyStr(<<name>>), p.rules,
              KwUpdate([p.clonekw EXCEPT !.required = Absent, !.multivalue = Absent],
                       overrides))

\* Param.clone_retype
clone_retype(p, name, klass, overrides) ==
    Construct(klass, PyStr(<<name>>), p.rules, KwUpdate(p.clonekw, overrides))

\* Param.clone_rename
clone_rename(p, name, overrides) == clone_retype(p, name, p.klass, overrides)

\* Param.clone
clone(p, overrides) == clone_rename(p, p.name, overrides)

(***************************************************************************)
(* The inputs the model draws from.                                        *)
(***************************************************************************)
SeqsUpTo(S, n) == UNION {[1..m -> S] : m \in 0..n}

RawScalars ==
    {None, PyUnicode(<<>>), PyStr(<<>>),
     PyUnicode(<<"A">>), PyUnicode(<<"A", "b">>), PyUnicode(<<"1", "2">>),
     PyUnicode(<<"1", ".", "5">>), PyStr(<<"a">>),
     PyInt(1), PyInt(2), PyFloat(15)}

TupleElems ==
    {None, PyUnicode(<<>>), PyUnicode(<<"A">>), PyUnicode(<<"A", "b">>), PyInt(2),
     PyTuple(<<PyUnicode(<<"A">>)>>)}

ListElems == {None, PyUnicode(<<"A">>), PyInt(2)}

RawValues ==
    RawScalars \cup {PyTuple(items) : items \in SeqsUpTo(TupleElems, MaxLen)}
               \cup {PyList(items) : items \in SeqsUpTo(ListElems, MaxLen)}

NoContext == ""

Contexts == {NoContext, "cli", "server"}

\* the keyword bags handed to get_default and to DefaultFrom.__call__
Bindings ==
    [first : {Absent, None, PyUnicode(<<>>), PyUnicode(<<"A">>), PyInt(2)},
     last : {Absent, None, PyUnicode(<<"1", "2">>)},
     middle : {Absent, PyUnicode(<<"A">>)}]

\* the keyword bags handed to Param.__call__
ApplyBindings ==
    {b \in Bindings : /\ b.middle = Absent
                      /\ b.last # None
                      /\ b.first \in {Absent, PyUnicode(<<"A">>), PyInt(2)}}

EmptyKw == [first |-> Absent, last |-> Absent, middle |-> Absent]

DefaultFroms ==
    {DefaultFrom("login", <<"first", "last">>), DefaultFrom("login", <<"last", "first">>),
     DefaultFrom("echo", <<"first">>), DefaultFrom("fail", <<"first">>)}

Factories ==
    {Factory(None), Factory(PyUnicode(<<>>)), Factory(PyUnicode(<<"A">>)),
     Factory(PyInt(2)), FactoryRaise}

\* (default_from, create_default) as given to the constructor
HookPairs ==
    {<<None, None>>, <<DefaultFrom("echo", <<"first">>), Factory(PyInt(2))>>}
    \cup {<<df, None>> : df \in DefaultFroms}
    \cup {<<None, cd>> : cd \in Factories}

StaticDefaults ==
    {None, PyUnicode(<<"A">>), PyUnicode(<<"A", "b">>), PyInt(1), PyInt(2),
     PyTuple(<<>>), PyTuple(<<PyUnicode(<<"A">>)>>), PyTuple(<<PyInt(1)>>)}

\* (minlength, maxlength, length, minvalue) as given to the constructor
ConstraintSets ==
    {<<None, None, None, None>>,
     <<PyInt(1), PyInt(2), None, None>>,
     <<PyInt(2), PyInt(2), None, None>>,
     <<None, None, PyInt(1), None>>,
     <<None, None, None, PyInt(2)>>}

RuleLists ==
    {<<>>, <<"rule_small">>, <<"rule_pass", "rule_fail">>, <<"rule_fail", "rule_pass">>}

\* parameters that differ in their default resolution
DefaultCandidates ==
    {[BaseParam(k) EXCEPT !.required = r, !.multivalue = m, !.normalizer = nz,
                          !.default_from = h[1], !.create_default = h[2],
                          !.default = d, !.rules = <<"rule_small">>] :
        k \in {"Str", "Int"}, r \in BOOLEAN, m \in BOOLEAN,
        nz \in {None, PyFn("lower")}, h \in HookPairs, d \in StaticDefaults}

\* parameters that differ in their requirement, constraints and rules
RuleCandidates ==
    {[BaseParam(k) EXCEPT !.cli_name = "user", !.required = r, !.multivalue = m,
                          !.query = q,
                          !.minlength = IF k = "Int" THEN None ELSE c[1],
                          !.maxlength = IF k = "Int" THEN None ELSE c[2],
                          !.length = IF k = "Int" THEN None ELSE c[3],
                          !.minvalue = IF k = "Int" THEN c[4] ELSE None,
                          !.rules = rl] :
        k \in {"Str", "Bytes", "Int"}, r \in BOOLEAN, m \in BOOLEAN, q \in BOOLEAN,
        c \in ConstraintSets, rl \in RuleLists}

\* parameters that differ in their normalizer
NormalizerCandidates ==
    {[BaseParam(k) EXCEPT !.required = FALSE, !.multivalue = m, !.normalizer = nz] :
        k \in {"Str", "Bytes", "Int"}, m \in BOOLEAN,
        nz \in {PyFn("lower"), PyFn("tail"), PyFn("fail")}}

\* parameters whose cli_name is the empty string
EmptyCliCandidates ==
    {[BaseParam(k) EXCEPT !.cli_name = "", !.multivalue = m,
                          !.rules = <<"rule_small">>] :
        k \in {"Str", "Int"}, m \in BOOLEAN}

\* the instances the constructor accepts
Params ==
    {p \in DefaultCandidates \cup RuleCandidates \cup NormalizerCandidates
            \cup EmptyCliCandidates :
        InitError(p) = ""}

(***************************************************************************)
(* The state machine.  param is the locked instance; a caller invokes one  *)
(* method on it (op) with raw, kw and context.  Param.__call__ runs in     *)
(* steps, the other methods in one step.                                   *)
(***************************************************************************)
Init ==
    /\ param \in Params
    /\ pc = "idle"
    /\ op = "none"
    /\ raw = None
    /\ kw = EmptyKw
    /\ context = NoContext
    /\ value = None
    /\ validated = <<>>
    /\ out = Ok(None)
    /\ calls = <<>>

\* Param.__call__(value, **kw) is entered; context is self.env.context, or
\* NoContext when the instance has no env
Call ==
    /\ pc = "idle"
    /\ \E v \in RawValues, b \in ApplyBindings, ctx \in {NoContext, "cli"} :
          /\ IsNull(v) \/ b = EmptyKw
          /\ raw' = v
          /\ kw' = b
          /\ context' = ctx
          /\ value' = v
    /\ op' = "apply"
    /\ pc' = "call"
    /\ validated' = <<>>
    /\ calls' = <<>>
    /\ UNCHANGED <<param, out>>

\* if value in NULLS: value = self.get_default(**kw)
ApplyGetDefault ==
    /\ pc = "call"
    /\ IsNull(raw)
    /\ \E r \in {GetDefault(param, kw)} :
          /\ calls' = r.calls
          /\ IF r.out.ok
             THEN value' = r.out.val /\ pc' = "validate" /\ out' = out
             ELSE value' = value /\ pc' = "raised" /\ out' = r.out
    /\ UNCHANGED <<param, op, raw, kw, context, validated>>

\* else: value = self.convert(self.normalize(value))
ApplyConvert ==
    /\ pc = "call"
    /\ ~IsNull(raw)
    /\ \E r \in {Convert(param, Normalize(param, raw))} :
          IF r.ok
          THEN value' = r.val /\ pc' = "validate" /\ out' = out
          ELSE value' = value /\ pc' = "raised" /\ out' = r
    /\ UNCHANGED <<param, op, raw, kw, context, validated, calls>>

\* self.validate(value, context) with its exception swallowed
ApplyValidate_Swallow ==
    /\ pc = "validate"
    /\ calls' = calls \o Validate(param, value, context).calls
    /\ validated' = IF Validate(param, value, context).out.ok THEN <<value>> ELSE validated
    /\ pc' = "return"
    /\ UNCHANGED <<param, op, raw, kw, context, value, out>>

\* self.validate(value, context)
ApplyValidate ==
    /\ pc = "validate"
    /\ \E r \in {Validate(param, value, context)} :
          /\ calls' = calls \o r.calls
          /\ IF r.out.ok
             THEN validated' = <<value>> /\ pc' = "return" /\ out' = out
             ELSE validated' = validated /\ pc' = "raised" /\ out' = r.out
    /\ UNCHANGED <<param, op, raw, kw, context, value>>

\* return value
ApplyReturn ==
    /\ pc = "return"
    /\ out' = Ok(value)
    /\ pc' = "done"
    /\ UNCHANGED <<param, op, raw, kw, context, value, validated, calls>>

\* a caller hands a value that Param.__call__ returned for a non-null raw
\* value back to convert(normalize(...))
RoundTrip ==
    /\ pc = "done"
    /\ op = "apply"
    /\ ~IsNull(raw)
    /\ op' = "roundtrip"
    /\ raw' = out.val
    /\ out' = Convert(param, Normalize(param, out.val))
    /\ UNCHANGED <<param, pc, kw, context, value, validated, calls>>

\* param.validate(value, context) called directly
CallValidate ==
    /\ pc = "idle"
    /\ \E v \in RawValues, ctx \in Contexts :
          \E r \in {Validate(param, v, ctx)} :
             /\ raw' = v
             /\ context' = ctx
             /\ out' = r.out
             /\ calls' = r.calls
    /\ op' = "validate"
    /\ pc' = "done"
    /\ UNCHANGED <<param, kw, value, validated>>

\* param.convert(value) called directly
CallConvert ==
    /\ pc = "idle"
    /\ \E v \in RawValues :
          /\ raw' = v
          /\ out' = Convert(param, v)
    /\ op' = "convert"
    /\ pc' = "done"
    /\ UNCHANGED <<param, kw, context, value, validated, calls>>

\* param.get_default(**kw) called directly
CallGetDefault ==
    /\ pc = "idle"
    /\ \E b \in Bindings :
          \E r \in {GetDefault(param, b)} :
             /\ kw' = b
             /\ out' = r.out
             /\ calls' = r.calls
    /\ op' = "get_default"
    /\ pc' = "done"
    /\ UNCHANGED <<param, raw, context, value, validated>>

\* param.default_from(**kw) called directly
CallDefaultFrom ==
    /\ pc = "idle"
    /\ param.default_from # None
    /\ \E b \in Bindings :
          \E r \in {DefaultFromCall(param.default_from, b)} :
             /\ kw' = b
             /\ out' = r.out
             /\ calls' = r.calls
    /\ op' = "default_from"
    /\ pc' = "done"
    /\ UNCHANGED <<param, raw, context, value, validated>>

\* param.normalize(value) called directly
CallNormalize ==
    /\ pc = "idle"
    /\ \E v \in RawValues :
          /\ raw' = v
          /\ out' = Ok(Normalize(param, v))
    /\ op' = "normalize"
    /\ pc' = "done"
    /\ UNCHANGED <<param, kw, context, value, validated, calls>>

Next ==
    \/ Call
    \/ ApplyGetDefault
    \/ ApplyConvert
    \/ ApplyValidate
    \/ ApplyReturn
    \/ RoundTrip
    \/ CallValidate
    \/ CallConvert
    \/ CallGetDefault
    \/ CallDefaultFrom
    \/ CallNormalize

Spec == Init /\ [][Next]_vars

(***************************************************************************)
(* Construction and the class-specific behaviour: a second specification   *)
(* that starts at the constructor call klass(spec, *rules, **kw), runs     *)
(* __init__ and then calls use_in_context or validate on the instance.     *)
(***************************************************************************)
\* Param.use_in_context testing exclude ahead of include
use_in_context_ExcludeOnly(p, tag) ==
    IF p.exclude # None THEN PyStr(<<tag>>) \notin p.exclude.elems
    ELSE TRUE

\* Param.use_in_context, with env.context = tag
use_in_context(p, tag) ==
    IF p.include # None THEN PyStr(<<tag>>) \in p.include.elems
    ELSE IF p.exclude # None THEN PyStr(<<tag>>) \notin p.exclude.elems
    ELSE TRUE

\* a constructor call
CtorCall(klass, spec, rules, kwds) ==
    [klass |-> klass, spec |-> spec, rules |-> rules, kw |-> kwds]

\* the values given for include and exclude
ContextSets ==
    {Absent, None, PyList(<<PyStr(<<"cli">>)>>),
     PyTuple(<<PyStr(<<"cli">>), PyStr(<<"webui">>)>>), PyTuple(<<>>)}

\* calls that differ in the default hooks, the context sets and
\* cli_short_name
HookCalls ==
    {CtorCall(k, PyStr(<<"login">>), <<>>,
              [NoKw EXCEPT !.default_from = df, !.create_default = cd,
                           !.include = inc, !.exclude = exc,
                           !.cli_short_name = sn]) :
        k \in {"Str", "Int"},
        df \in {Absent, DefaultFrom("echo", <<"first">>), PyFn("login")},
        cd \in {Absent, Factory(PyUnicode(<<"A">>)), PyInt(2)},
        inc \in ContextSets, exc \in ContextSets,
        sn \in {Absent, PyStr(<<"l">>), PyStr(<<"l", "o">>)}}

\* the values given for minlength, maxlength and length
LengthValues == {Absent, PyInt(0), PyInt(1), PyInt(2), PyInt(3)}

\* calls that differ in the length constraints
LengthCalls ==
    {CtorCall(k, PyStr(<<"login">>), <<>>,
              [NoKw EXCEPT !.minlength = mn, !.maxlength = mx, !.length = ln]) :
        k \in {"Str", "Bytes"}, mn \in LengthValues, mx \in LengthValues,
        ln \in {Absent, PyInt(2)}}

\* the values given for minvalue and maxvalue
IntValues == {Absent, None, PyInt(0), PyInt(3), PyInt(5), PyInt(MAXINT)}

FloatValues == {Absent, None, PyFloat(0), PyFloat(25), PyFloat(30), PyInt(3)}

\* calls that differ in the value constraints
ValueCalls ==
    {CtorCall("Int", PyStr(<<"count">>), <<>>,
              [NoKw EXCEPT !.minvalue = mn, !.maxvalue = mx]) :
        mn \in IntValues, mx \in IntValues}
    \cup {CtorCall("Float", PyStr(<<"ratio">>), <<>>,
                   [NoKw EXCEPT !.minvalue = mn, !.maxvalue = mx]) :
            mn \in FloatValues, mx \in FloatValues}

\* the spec strings: a name with each suffix, and a spec that is not a str
Specs ==
    {PyStr(<<"var">>), PyStr(<<"var", "?">>), PyStr(<<"var", "*">>),
     PyStr(<<"var", "+">>), PyStr(<<"x", "+">>), PyUnicode(<<"var">>)}

Flags == {Absent, PyBool(TRUE), PyBool(FALSE)}

\* calls that differ in the spec suffix and the cardinality keywords
SpecCalls ==
    {CtorCall(k, sp, <<>>, [NoKw EXCEPT !.required = rq, !.multivalue = mv]) :
        k \in {"Str", "Int", "List"}, sp \in Specs, rq \in Flags, mv \in Flags}

\* List parameters with extra rules
ListCalls ==
    {CtorCall("List", PyStr(<<"tokens", sfx>>), rl, NoKw) :
        sfx \in {"?", "+"}, rl \in RuleLists}

Txt_One == <<"O", "n", "e">>

Txt_Two == <<"T", "w", "o">>

Txt_Three == <<"T", "h", "r", "e", "e">>

Txt_Four == <<"F", "o", "u", "r">>

\* the values keyword of an enumeration
EnumValues ==
    {Absent, PyTuple(<<>>),
     PyTuple(<<PyUnicode(Txt_One), PyUnicode(Txt_Two), PyUnicode(Txt_Three)>>),
     PyTuple(<<PyUnicode(Txt_One), PyStr(Txt_Two)>>),
     PyList(<<PyUnicode(Txt_One)>>)}

\* enumerations
EnumCalls ==
    {CtorCall("StrEnum", PyStr(<<"my_enum">>), <<>>,
              [NoKw EXCEPT !.values = vs, !.cli_name = cn, !.query = qy]) :
        vs \in EnumValues, cn \in {Absent, PyStr(<<"choice">>)},
        qy \in {Absent, PyBool(TRUE)}}

\* access-time parameters
AccessTimeCalls ==
    {CtorCall("AccessTime", sp, <<>>, [NoKw EXCEPT !.cli_name = cn]) :
        sp \in {PyStr(<<"accesstime">>), PyStr(<<"accesstime", "?">>)},
        cn \in {Absent, PyStr(<<"when">>)}}

CtorCalls ==
    HookCalls \cup LengthCalls \cup ValueCalls \cup SpecCalls \cup ListCalls
        \cup EnumCalls \cup AccessTimeCalls

\* well-formed generalized-time stamps of 10, 12 and 14 digits
Stamps ==
    {<<"2", "0", "1", "4", "0", "1", "0", "1", "0", "0">>,
     <<"2", "0", "1", "3", "1", "2", "3", "1", "2", "3", "5", "9">>,
     <<"2", "0", "1", "4", "0", "1", "0", "1", "0", "0", "0", "0">>,
     <<"2", "0", "1", "4", "1", "2", "3", "1", "2", "3", "5", "9">>,
     <<"2", "0", "1", "4", "0", "1", "0", "1", "0", "0", "0", "0", "0", "0">>}

\* absolute T1 ~ T2 for every pair of stamps
AbsoluteExprs == {<<Txt_absolute, t1, Txt_tilde, t2>> : t1 \in Stamps, t2 \in Stamps}

\* periodic expressions with every required token present and every field
\* in range
PeriodicExprs ==
    {<<<<"p", "e", "r", "i", "o", "d", "i", "c">>, <<"d", "a", "i", "l", "y">>, <<"0", "8", "0", "0", "-", "1", "7", "0", "0">>>>,
     <<<<"p", "e", "r", "i", "o", "d", "i", "c">>, <<"w", "e", "e", "k", "l", "y">>, <<"d", "a", "y">>, <<"M", "o", "n", ",", "W", "e", "d", ",", "F", "r", "i">>, <<"0", "9", "0", "0", "-", "1", "2", "0", "0">>>>,
     <<<<"p", "e", "r", "i", "o", "d", "i", "c">>, <<"w", "e", "e", "k", "l", "y">>, <<"d", "a", "y">>, <<"1", "-", "5">>, <<"0", "9", "0", "0", "-", "1", "2", "0", "0">>>>,
     <<<<"p", "e", "r", "i", "o", "d", "i", "c">>, <<"m", "o", "n", "t", "h", "l", "y">>, <<"w", "e", "e", "k">>, <<"1", "-", "2">>, <<"d", "a", "y">>, <<"1", "-", "5">>, <<"0", "9", "0", "0", "-", "1", "2", "0", "0">>>>,
     <<<<"p", "e", "r", "i", "o", "d", "i", "c">>, <<"m", "o", "n", "t", "h", "l", "y">>, <<"d", "a", "y">>, <<"1", ",", "1", "5">>, <<"0", "0", "0", "0", "-", "2", "3", "5", "9">>>>,
     <<<<"p", "e", "r", "i", "o", "d", "i", "c">>, <<"y", "e", "a", "r", "l", "y">>, <<"m", "o", "n", "t", "h">>, <<"3">>, <<"d", "a", "y">>, <<"1">>, <<"0", "8", "0", "0", "-", "1", "7", "0", "0">>>>,
     <<<<"p", "e", "r", "i", "o", "d", "i", "c">>, <<"y", "e", "a", "r", "l", "y">>, <<"m", "o", "n", "t", "h">>, <<"1", "2">>, <<"w", "e", "e", "k">>, <<"1">>, <<"d", "a", "y">>, <<"M", "o", "n">>, <<"0", "8", "0", "0", "-", "1", "7", "0", "0">>>>,
     <<<<"p", "e", "r", "i", "o", "d", "i", "c">>, <<"y", "e", "a", "r", "l", "y">>, <<"w", "e", "e", "k">>, <<"1", "0">>, <<"d", "a", "y">>, <<"M", "o", "n">>, <<"0", "8", "0", "0", "-", "1", "7", "0", "0">>>>,
     <<<<"p", "e", "r", "i", "o", "d", "i", "c">>, <<"y", "e", "a", "r", "l", "y">>, <<"d", "a", "y">>, <<"1", "0", "0", "-", "2", "0", "0">>, <<"0", "8", "0", "0", "-", "1", "2", "0", "0", ",", "1", "3", "0", "0", "-", "1", "7", "0", "0">>>>}

\* the month lists tried after `periodic yearly month`: single numbers,
\* comma lists, hyphen ranges, a reversed range and a number out of range
MonthLists ==
    {<<"3">>,
     <<"1", "2">>,
     <<"1", "-", "3">>,
     <<"1", ",", "2">>,
     <<"1", "-", "3", ",", "5">>,
     <<"3", "-", "1">>,
     <<"1", "3">>}

\* the month lists of MonthLists that are comma-separated month numbers 1-12
\* or ranges lo-hi with lo <= hi
GoodMonthLists ==
    {<<"3">>,
     <<"1", "2">>,
     <<"1", "-", "3">>,
     <<"1", ",", "2">>,
     <<"1", "-", "3", ",", "5">>}

\* the valid month-spec and HHMM intervals that follow the month list
MonthTails ==
    {<<<<"d", "a", "y">>, <<"1">>, <<"0", "8", "0", "0", "-", "1", "7", "0", "0">>>>,
     <<<<"w", "e", "e", "k">>, <<"1">>, <<"d", "a", "y">>, <<"M", "o", "n">>, <<"0", "8", "0", "0", "-", "1", "7", "0", "0">>>>}

\* periodic yearly month <M> <month-spec> <HHMM-intervals>
YearlyMonthExprs ==
    {<<Txt_periodic, Txt_yearly, Txt_month, m>> \o t : m \in MonthLists, t \in MonthTails}

\* an expression with every token present and one malformed field, with the
\* message of that field
Malformed(expr, msg) == [expr |-> expr, msg |-> msg]

MalformedCases ==
    {Malformed(<<<<"p", "e", "r", "i", "o", "d", "i", "c">>, <<"m", "o", "n", "t", "h", "l", "y">>, <<"d", "a", "y">>, <<"3", "2">>, <<"0", "9", "0", "0", "-", "1", "0", "0", "0">>>>,
               "day of the month out of range"),
     Malformed(<<<<"p", "e", "r", "i", "o", "d", "i", "c">>, <<"d", "a", "i", "l", "y">>, <<"2", "5", "0", "0", "-", "2", "6", "0", "0">>>>,
               "HH out of range"),
     Malformed(<<<<"p", "e", "r", "i", "o", "d", "i", "c">>, <<"d", "a", "i", "l", "y">>, <<"0", "8", "6", "0", "-", "0", "9", "0", "0">>>>,
               "MM out of range"),
     Malformed(<<<<"p", "e", "r", "i", "o", "d", "i", "c">>, <<"d", "a", "i", "l", "y">>, <<"8", "0", "0", "-", "1", "7", "0", "0">>>>,
               "HHMM must be exactly 4 characters long"),
     Malformed(<<<<"p", "e", "r", "i", "o", "d", "i", "c">>, <<"d", "a", "i", "l", "y">>, <<"0", "9", "0", "0", "-", "0", "8", "0", "0">>>>,
               "invalid time range"),
     Malformed(<<<<"p", "e", "r", "i", "o", "d", "i", "c">>, <<"w", "e", "e", "k", "l", "y">>, <<"d", "a", "y">>, <<"X", "y", "z">>, <<"0", "9", "0", "0", "-", "1", "2", "0", "0">>>>,
               "invalid day of the week"),
     Malformed(<<<<"p", "e", "r", "i", "o", "d", "i", "c">>, <<"w", "e", "e", "k", "l", "y">>, <<"d", "a", "y">>, <<"8">>, <<"0", "9", "0", "0", "-", "1", "2", "0", "0">>>>,
               "day of the week out of range"),
     Malformed(<<<<"p", "e", "r", "i", "o", "d", "i", "c">>, <<"w", "e", "e", "k", "l", "y">>, <<"w", "e", "e", "k">>, <<"1">>, <<"0", "9", "0", "0", "-", "1", "2", "0", "0">>>>,
               "invalid week specifier"),
     Malformed(<<<<"p", "e", "r", "i", "o", "d", "i", "c">>, <<"m", "o", "n", "t", "h", "l", "y">>, <<"m", "o", "n", "t", "h">>, <<"1">>, <<"0", "9", "0", "0", "-", "1", "2", "0", "0">>>>,
               "invalid month specifier"),
     Malformed(<<<<"p", "e", "r", "i", "o", "d", "i", "c">>, <<"m", "o", "n", "t", "h", "l", "y">>, <<"w", "e", "e", "k">>, <<"7">>, <<"d", "a", "y">>, <<"1">>, <<"0", "9", "0", "0", "-", "1", "2", "0", "0">>>>,
               "week of the month out of range"),
     Malformed(<<<<"p", "e", "r", "i", "o", "d", "i", "c">>, <<"y", "e", "a", "r", "l", "y">>, <<"h", "o", "u", "r">>, <<"1">>, <<"0", "9", "0", "0", "-", "1", "2", "0", "0">>>>,
               "invalid year specifier"),
     Malformed(<<<<"p", "e", "r", "i", "o", "d", "i", "c">>, <<"y", "e", "a", "r", "l", "y">>, <<"w", "e", "e", "k">>, <<"5", "3">>, <<"d", "a", "y">>, <<"1">>, <<"0", "9", "0", "0", "-", "1", "2", "0", "0">>>>,
               "week of the year out of range"),
     Malformed(<<<<"p", "e", "r", "i", "o", "d", "i", "c">>, <<"y", "e", "a", "r", "l", "y">>, <<"d", "a", "y">>, <<"3", "6", "6">>, <<"0", "9", "0", "0", "-", "1", "2", "0", "0">>>>,
               "day of the year out of range"),
     Malformed(<<<<"p", "e", "r", "i", "o", "d", "i", "c">>, <<"y", "e", "a", "r", "l", "y">>, <<"m", "o", "n", "t", "h">>, <<"1", "3">>, <<"d", "a", "y">>, <<"1">>, <<"0", "9", "0", "0", "-", "1", "2", "0", "0">>>>,
               "month number out of range"),
     Malformed(<<<<"p", "e", "r", "i", "o", "d", "i", "c">>, <<"h", "o", "u", "r", "l", "y">>, <<"5">>, <<"0", "9", "0", "0", "-", "1", "2", "0", "0">>>>,
               "period must be yearly, monthy or daily, got '%s'"),
     Malformed(<<<<"s", "o", "m", "e", "t", "i", "m", "e", "s">>, <<"d", "a", "i", "l", "y">>, <<"0", "9", "0", "0", "-", "1", "2", "0", "0">>>>,
               "time neither absolute or periodic"),
     Malformed(<<<<"a", "b", "s", "o", "l", "u", "t", "e">>, <<"2", "0", "1", "4", "1", "3", "0", "1", "0", "0">>, <<"~">>, <<"2", "0", "1", "4", "1", "4", "0", "1", "0", "0">>>>,
               "month number out of range"),
     Malformed(<<<<"a", "b", "s", "o", "l", "u", "t", "e">>, <<"2", "0", "1", "4", "0", "2", "2", "9", "0", "0">>, <<"~">>, <<"2", "0", "1", "4", "0", "3", "0", "1", "0", "0">>>>,
               "day of the month out of range"),
     Malformed(<<<<"a", "b", "s", "o", "l", "u", "t", "e">>, <<"2", "0", "1", "4", "0", "1", "0", "1", "0", "0">>, <<"-">>, <<"2", "0", "1", "4", "0", "2", "0", "1", "0", "0">>>>,
               "invalid time range separator"),
     Malformed(<<<<"a", "b", "s", "o", "l", "u", "t", "e">>, <<"2", "0", "1", "4", "0", "1", "0", "1", "0", "0">>, <<"~">>, <<"2", "0", "1", "4", "0", "1", "0", "1", "0", "0", "6", "1">>>>,
               "MM out of range"),
     Malformed(<<<<"a", "b", "s", "o", "l", "u", "t", "e">>, <<"2", "0", "1", "4", "0", "1", "0", "1", "0", "0">>, <<"~">>, <<"2", "0", "1", "4", "0", "1", "0", "1", "0", "0", "0", "0", "6", "1">>>>,
               "seconds out of range"),
     Malformed(<<<<"a", "b", "s", "o", "l", "u", "t", "e">>, <<"2", "0", "1", "4", "0", "1", "0", "1", "0", "0">>, <<"~">>, <<"2", "0", "1", "4", "x", "1", "0", "1", "0", "0">>>>,
               "time non-numeric"),
     Malformed(<<<<"a", "b", "s", "o", "l", "u", "t", "e">>, <<"2", "0", "1", "2", "0", "2", "2", "9", "0", "0">>, <<"~">>, <<"2", "0", "1", "2", "0", "2", "2", "9">>>>,
               "incomplete generalized time")}

\* the proper prefixes of an expression that keep at least one token
Prefixes(expr) == {SubSeq(expr, 1, n) : n \in 1..(Len(expr) - 1)}

\* periodic expressions that stop before every required token is present
TruncatedPeriodic == UNION {Prefixes(e) : e \in PeriodicExprs}

\* absolute expressions that stop before every required token is present
TruncatedAbsolute == UNION {Prefixes(e) : e \in AbsoluteExprs}

\* the access-time expressions handed to validate, as text
AccessTimeTexts ==
    {Join(e) : e \in AbsoluteExprs \cup PeriodicExprs \cup YearlyMonthExprs
                     \cup TruncatedPeriodic \cup TruncatedAbsolute
                     \cup {c.expr : c \in MalformedCases}}
        \cup {<<" ">> \o Join(<<Txt_periodic, <<>>, Txt_daily>>)}

\* the tokens of a delimited list
ListTokens == {PyUnicode(<<"a">>), PyUnicode(<<"a", "b">>)}

\* the values handed to validate, for each class
TypedValues(p) ==
    CASE p.klass = "AccessTime" -> {None} \cup {PyUnicode(t) : t \in AccessTimeTexts}
      [] p.klass = "StrEnum" ->
            {None, PyUnicode(Txt_One), PyUnicode(Txt_Two), PyUnicode(Txt_Three),
             PyUnicode(Txt_Four), PyStr(Txt_Two), PyInt(1)}
      [] p.klass = "List" ->
            {None, PyUnicode(<<"a">>)}
                \cup {PyTuple(items) : items \in SeqsUpTo(ListTokens, MaxLen)}
      [] OTHER -> RawScalars

\* the state at the constructor call: param holds the class and the extra
\* rules, raw the spec, kw the keywords
InitNew ==
    /\ \E c \in CtorCalls :
          /\ param = [klass |-> c.klass, rules |-> c.rules]
          /\ raw = c.spec
          /\ kw = c.kw
    /\ pc = "new"
    /\ op = "__init__"
    /\ context = NoContext
    /\ value = None
    /\ validated = <<>>
    /\ out = Ok(None)
    /\ calls = <<>>

\* klass(spec, *rules, **kw): the constructor returns the locked instance
\* or raises
CallInit ==
    /\ pc = "new"
    /\ \E r \in {Construct(param.klass, raw, param.rules, kw)} :
          /\ param' = IF r.ok THEN r.val ELSE param
          /\ pc' = IF r.ok THEN "idle" ELSE "failed"
          /\ out' = IF r.ok THEN Ok(None) ELSE r
    /\ UNCHANGED <<op, raw, kw, context, value, validated, calls>>

\* param.use_in_context(env) with env.context = tag
CallUseInContext ==
    /\ pc = "idle"
    /\ \E tag \in {"cli", "webui", "server"} :
          /\ context' = tag
          /\ out' = Ok(PyBool(use_in_context(param, tag)))
    /\ op' = "use_in_context"
    /\ pc' = "done"
    /\ UNCHANGED <<param, raw, kw, value, validated, calls>>

\* param.validate(value, context) on a value of the class's own kind
CallValidateTyped ==
    /\ pc = "idle"
    /\ \E v \in TypedValues(param), ctx \in Contexts :
          \E r \in {Validate(param, v, ctx)} :
             /\ raw' = v
             /\ context' = ctx
             /\ out' = r.out
             /\ calls' = r.calls
    /\ op' = "validate"
    /\ pc' = "done"
    /\ UNCHANGED <<param, kw, value, validated>>

\* the overrides handed to clone: none, a flag, the display name, a length
\* constraint
CloneOverrides ==
    {NoKw,
     [NoKw EXCEPT !.required = PyBool(FALSE)],
     [NoKw EXCEPT !.multivalue = PyBool(TRUE)],
     [NoKw EXCEPT !.cli_name = PyStr(<<"other">>)],
     [NoKw EXCEPT !.minlength = PyInt(1)]}

\* the arguments of a clone call: the name and the class of the new
\* parameter and the overrides
CloneArgs(name, klass, overrides) ==
    [name |-> name, klass |-> klass, overrides |-> overrides]

\* param.clone(**overrides)
CallClone ==
    /\ pc = "idle"
    /\ \E ov \in CloneOverrides :
          /\ value' = CloneArgs(param.name, param.klass, ov)
          /\ out' = clone(param, ov)
    /\ op' = "clone"
    /\ pc' = "done"
    /\ UNCHANGED <<param, raw, kw, context, validated, calls>>

\* param.clone_rename(name, **overrides)
CallCloneRename ==
    /\ pc = "idle"
    /\ \E ov \in CloneOverrides :
          /\ value' = CloneArgs("renamed", param.klass, ov)
          /\ out' = clone_rename(param, "renamed", ov)
    /\ op' = "clone"
    /\ pc' = "done"
    /\ UNCHANGED <<param, raw, kw, context, validated, calls>>

\* param.clone_retype(name, klass, **overrides)
CallCloneRetype ==
    /\ pc = "idle"
    /\ \E ov \in CloneOverrides, k \in {"Str", "Bytes", "Int"} :
          /\ value' = CloneArgs("renamed", k, ov)
          /\ out' = clone_retype(param, "renamed", k, ov)
    /\ op' = "clone"
    /\ pc' = "done"
    /\ UNCHANGED <<param, raw, kw, context, validated, calls>>

NextInit ==
    \/ CallInit
    \/ CallUseInContext
    \/ CallValidateTyped
    \/ CallClone
    \/ CallCloneRename
    \/ CallCloneRetype

SpecInit == InitNew /\ [][NextInit]_vars

(***************************************************************************)
(* Concurrent callers: a third specification in which two threads share    *)
(* one constructed instance.  Every variable but param is a function of    *)
(* the thread; a thread runs Param.__call__ in steps or one of the other   *)
(* methods in one step, and the steps of the two threads interleave.       *)
(***************************************************************************)
ParThreads == {1, 2}

\* the constructor calls whose instances the threads share
ParCtorCalls ==
    {CtorCall("Str", PyStr(<<"login", "?">>), <<"rule_small">>,
              [NoKw EXCEPT !.normalizer = PyFn("lower"),
                           !.default = PyUnicode(<<"A", "b">>)]),
     CtorCall("Str", PyStr(<<"login", "*">>), <<"rule_small">>,
              [NoKw EXCEPT !.default_from = DefaultFrom("echo", <<"first">>),
                           !.default = PyTuple(<<PyUnicode(<<"A">>)>>)]),
     CtorCall("Int", PyStr(<<"login">>), <<"rule_small">>,
              [NoKw EXCEPT !.create_default = Factory(PyInt(2)),
                           !.include = PyList(<<PyStr(<<"cli">>)>>)]),
     CtorCall("Str", PyStr(<<"login">>), <<>>,
              [NoKw EXCEPT !.cli_name = PyStr(<<"user">>),
                           !.default = PyUnicode(<<"A">>)])}

ParParams == {Construct(c.klass, c.spec, c.rules, c.kw).val : c \in ParCtorCalls}

\* the raw values and the keyword bags of the concurrent calls
ParRawValues ==
    {None, PyUnicode(<<"A">>), PyUnicode(<<"A", "b">>), PyInt(2),
     PyTuple(<<PyUnicode(<<"A">>), None>>)}

ParBindings == {EmptyKw, [EmptyKw EXCEPT !.first = PyUnicode(<<"A", "b">>)]}

\* the methods a thread calls in one step
ParMethods ==
    {"normalize", "convert", "validate", "get_default", "use_in_context", "clone"}

\* the outcome of one method on instance p
MethodCall(p, method, v, bindings, ctx) ==
    CASE method = "normalize" -> Ok(Normalize(p, v))
      [] method = "convert" -> Convert(p, v)
      [] method = "validate" -> Validate(p, v, ctx).out
      [] method = "get_default" -> GetDefault(p, bindings).out
      [] method = "use_in_context" -> Ok(PyBool(use_in_context(p, ctx)))
      [] method = "clone" -> clone(p, NoKw)

\* Param.__call__ run from entry to exit on instance p
ParamCall(p, v, bindings, ctx) ==
    LET Validated(first, r) == IF r.ok THEN first ELSE r
        Resolved(first) ==
            IF first.ok THEN Validated(first, Validate(p, first.val, ctx).out)
            ELSE first
    IN IF IsNull(v) THEN Resolved(GetDefault(p, bindings).out)
       ELSE Resolved(Convert(p, Normalize(p, v)))

InitPar ==
    /\ param \in ParParams
    /\ pc = [t \in ParThreads |-> "idle"]
    /\ op = [t \in ParThreads |-> "none"]
    /\ raw = [t \in ParThreads |-> None]
    /\ kw = [t \in ParThreads |-> EmptyKw]
    /\ context = [t \in ParThreads |-> NoContext]
    /\ value = [t \in ParThreads |-> None]
    /\ validated = [t \in ParThreads |-> <<>>]
    /\ out = [t \in ParThreads |-> Ok(None)]
    /\ calls = [t \in ParThreads |-> <<>>]

\* thread t enters Param.__call__(value, **kw)
ParCall(t) ==
    /\ pc[t] = "idle"
    /\ \E v \in ParRawValues, b \in ParBindings, ctx \in {NoContext, "cli"} :
          /\ IsNull(v) \/ b = EmptyKw
          /\ raw' = [raw EXCEPT ![t] = v]
          /\ kw' = [kw EXCEPT ![t] = b]
          /\ context' = [context EXCEPT ![t] = ctx]
          /\ value' = [value EXCEPT ![t] = v]
    /\ op' = [op EXCEPT ![t] = "apply"]
    /\ pc' = [pc EXCEPT ![t] = "call"]
    /\ UNCHANGED <<param, validated, out, calls>>

\* thread t: if value in NULLS: value = self.get_default(**kw)
ParGetDefault(t) ==
    /\ pc[t] = "call"
    /\ IsNull(raw[t])
    /\ \E r \in {GetDefault(param, kw[t])} :
          /\ calls' = [calls EXCEPT ![t] = r.calls]
          /\ IF r.out.ok
             THEN /\ value' = [value EXCEPT ![t] = r.out.val]
                  /\ pc' = [pc EXCEPT ![t] = "validate"]
                  /\ out' = out
             ELSE /\ value' = value
                  /\ pc' = [pc EXCEPT ![t] = "raised"]
                  /\ out' = [out EXCEPT ![t] = r.out]
    /\ UNCHANGED <<param, op, raw, kw, context, validated>>

\* thread t's convert step on an instance that keeps the last converted
\* value as its default
ParConvert_Caching(t) ==
    /\ pc[t] = "call"
    /\ ~IsNull(raw[t])
    /\ \E r \in {Convert(param, Normalize(param, raw[t]))} :
          IF r.ok
          THEN /\ value' = [value EXCEPT ![t] = r.val]
               /\ pc' = [pc EXCEPT ![t] = "validate"]
               /\ out' = out
               /\ param' = [param EXCEPT !.default = r.val]
          ELSE /\ value' = value
               /\ pc' = [pc EXCEPT ![t] = "raised"]
               /\ out' = [out EXCEPT ![t] = r]
               /\ param' = param
    /\ UNCHANGED <<op, raw, kw, context, validated, calls>>

\* thread t: else: value = self.convert(self.normalize(value))
ParConvert(t) ==
    /\ pc[t] = "call"
    /\ ~IsNull(raw[t])
    /\ \E r \in {Convert(param, Normalize(param, raw[t]))} :
          IF r.ok
          THEN /\ value' = [value EXCEPT ![t] = r.val]
               /\ pc' = [pc EXCEPT ![t] = "validate"]
               /\ out' = out
          ELSE /\ value' = value
               /\ pc' = [pc EXCEPT ![t] = "raised"]
               /\ out' = [out EXCEPT ![t] = r]
    /\ UNCHANGED <<param, op, raw, kw, context, validated, calls>>

\* thread t: self.validate(value, context)
ParValidate(t) ==
    /\ pc[t] = "validate"
    /\ \E r \in {Validate(param, value[t], context[t])} :
          /\ calls' = [calls EXCEPT ![t] = @ \o r.calls]
          /\ IF r.out.ok
             THEN /\ validated' = [validated EXCEPT ![t] = <<value[t]>>]
                  /\ pc' = [pc EXCEPT ![t] = "return"]
                  /\ out' = out
             ELSE /\ validated' = validated
                  /\ pc' = [pc EXCEPT ![t] = "raised"]
                  /\ out' = [out EXCEPT ![t] = r.out]
    /\ UNCHANGED <<param, op, raw, kw, context, value>>

\* thread t: return value
ParReturn(t) ==
    /\ pc[t] = "return"
    /\ out' = [out EXCEPT ![t] = Ok(value[t])]
    /\ pc' = [pc EXCEPT ![t] = "done"]
    /\ UNCHANGED <<param, op, raw, kw, context, value, validated, calls>>

\* thread t calls one of the other methods
ParMethod(t) ==
    /\ pc[t] = "idle"
    /\ \E m \in ParMethods, v \in ParRawValues, b \in ParBindings,
          ctx \in {NoContext, "cli"} :
          /\ IsNull(v) \/ b = EmptyKw
          /\ op' = [op EXCEPT ![t] = m]
          /\ raw' = [raw EXCEPT ![t] = v]
          /\ kw' = [kw EXCEPT ![t] = b]
          /\ context' = [context EXCEPT ![t] = ctx]
          /\ out' = [out EXCEPT ![t] = MethodCall(param, m, v, b, ctx)]
    /\ pc' = [pc EXCEPT ![t] = "done"]
    /\ UNCHANGED <<param, value, validated, calls>>

NextPar ==
    \E t \in ParThreads :
        \/ ParCall(t)
        \/ ParGetDefault(t)
        \/ ParConvert(t)
        \/ ParValidate(t)
        \/ ParReturn(t)
        \/ ParMethod(t)

SpecPar == InitPar /\ [][NextPar]_vars

(***************************************************************************)
(* Properties of the pipeline entry point.                                 *)
(***************************************************************************)
\* C1: Param.__call__ returns a value v only after validate(v) completed
\* without error in the same invocation; v is get_default(**kw) when the raw
\* value is a null-equivalent and convert(normalize(raw)) otherwise, so a
\* default that validate rejects is never returned.
C1_ReturnOnlyAfterValidate ==
    /\ (op = "apply" /\ pc \in {"return", "done"}) =>
          /\ validated = <<value>>
          /\ Validate(param, value, context).out.ok
          /\ IF IsNull(raw)
             THEN GetDefault(param, kw).out = Ok(value)
             ELSE Convert(param, Normalize(param, raw)) = Ok(value)
    /\ (op = "apply" /\ pc = "done") => out = Ok(value)
    /\ (op = "apply" /\ pc \in {"call", "validate", "raised"}) => validated = <<>>

\* a dynamic default was resolved, validated by the rules and returned
C1_Witness ==
    /\ op = "apply"
    /\ pc = "done"
    /\ IsNull(raw)
    /\ param.default_from # None
    /\ out.val \notin {None, param.default}
    /\ calls # <<>>
    /\ validated = <<out.val>>

\* C2: a non-multivalue Param with no default, default_from or
\* create_default, applied to a null-equivalent raw value, returns None when
\* not required and raises RequirementError when required.
C2_NullWithoutDefault ==
    (/\ op = "apply"
     /\ IsNull(raw)
     /\ ~param.multivalue
     /\ param.default = None
     /\ param.default_from = None
     /\ param.create_default = None
     /\ pc \notin {"call", "validate"}) =>
        IF param.required
        THEN /\ pc = "raised"
             /\ ~out.ok
             /\ out.exc.type = "RequirementError"
        ELSE /\ pc \in {"return", "done"}
             /\ value = None
             /\ pc = "done" => out = Ok(None)

\* a required Param without defaults refused the empty list
C2_Witness ==
    /\ op = "apply"
    /\ raw = PyList(<<>>)
    /\ ~param.multivalue
    /\ param.default = None
    /\ param.default_from = None
    /\ param.create_default = None
    /\ param.required
    /\ pc = "raised"
    /\ out = Raise(RequirementError(param.name))

(***************************************************************************)
(* Properties of convert and validate.                                     *)
(***************************************************************************)
\* the elements of a raw value as convert sees them: a bare scalar is a
\* one-element sequence
ElementsOf(v) == IF IsSeqValue(v) THEN v.items ELSE <<v>>

NotNullValue(v) == ~IsNull(v)

\* C3: for a multivalue Param, convert returns None when the input has no
\* non-null-equivalent element, and otherwise the tuple of the
\* _convert_scalar results of the non-null-equivalent elements, in their
\* original order and with duplicates kept; it never returns an empty tuple.
C3_MultivalueConvert ==
    (op = "convert" /\ param.multivalue) =>
        LET kept == SelectSeq(ElementsOf(raw), NotNullValue)
        IN /\ out # Ok(PyTuple(<<>>))
           /\ kept = <<>> => out = Ok(None)
           /\ (out.ok /\ kept # <<>>) =>
                 /\ out.val.k = "tuple"
                 /\ Len(out.val.items) = Len(kept)
                 /\ \A j \in 1..Len(kept) :
                       Ok(out.val.items[j]) = ConvertScalar(param, kept[j], NoIndex)
           /\ ~out.ok => \E j \in 1..Len(kept) : ~ConvertScalar(param, kept[j], NoIndex).ok

\* a list with a null-equivalent ahead of a value was converted to the
\* one-element tuple of the converted value
C3_Witness ==
    /\ op = "convert"
    /\ param.multivalue
    /\ raw = PyList(<<None, PyInt(2)>>)
    /\ param.klass = "Str"
    /\ out = Ok(PyTuple(<<PyUnicode(<<"2">>)>>))

\* C4: validate(None, context) raises RequirementError when required, naming
\* cli_name when context is 'cli' and name otherwise; when not required it
\* succeeds and no rule is called.
C4_ValidateNone ==
    (op = "validate" /\ raw = None) =>
        /\ calls = <<>>
        /\ IF param.required
           THEN out = Raise(RequirementError(
                          IF context = "cli" THEN param.cli_name ELSE param.name))
           ELSE out = Ok(None)

\* a required Param whose cli_name differs from its name refused None in
\* the cli context
C4_Witness ==
    /\ op = "validate"
    /\ raw = None
    /\ param.required
    /\ context = "cli"
    /\ param.cli_name # param.name
    /\ param.rules # <<>>
    /\ out = Raise(RequirementError(param.cli_name))

\* the rule sequence the constructor composes: one class rule per constraint
\* keyword that is set, in the order the keywords are declared, then the
\* caller's rules
ComposedRules(p) ==
    (IF p.klass \in {"Str", "Bytes"} /\ p.minlength # None THEN <<"_rule_minlength">> ELSE <<>>)
    \o (IF p.klass \in {"Str", "Bytes"} /\ p.maxlength # None THEN <<"_rule_maxlength">> ELSE <<>>)
    \o (IF p.klass \in {"Str", "Bytes"} /\ p.length # None THEN <<"_rule_length">> ELSE <<>>)
    \o (IF p.klass = "Int" /\ p.minvalue # None THEN <<"_rule_minvalue">> ELSE <<>>)
    \o (IF p.klass = "Int" /\ p.maxvalue # None THEN <<"_rule_maxvalue">> ELSE <<>>)
    \o p.rules

\* validate reaches the element-level checks for this value
ReachesElements(p, v) ==
    /\ v # None
    /\ ~p.query
    /\ p.multivalue => (v.k = "tuple" /\ v.items # <<>>)

ValidatedElements(p, v) == IF p.multivalue THEN v.items ELSE <<v>>

\* C5: element-level validation calls the composed rules (class rules in
\* keyword order, then the caller's rules) in order on each element, stops at
\* the first rule that returns a message, and raises a ValidationError that
\* carries that rule.
C5_RuleOrder ==
    (op = "validate" /\ ReachesElements(param, raw)) =>
        LET rules == ComposedRules(param)
            elems == ValidatedElements(param, raw)
            n == Len(rules)
            last == Len(calls)
            elemOf(c) == ((c - 1) \div n) + 1
            ruleOf(c) == ((c - 1) % n) + 1
        IN /\ n = 0 => calls = <<>>
           /\ \A c \in 1..last :
                 /\ elemOf(c) <= Len(elems)
                 /\ calls[c] = CallEntry(rules[ruleOf(c)], <<elems[elemOf(c)]>>)
                 /\ c < last => RuleCall(param, rules[ruleOf(c)], elems[elemOf(c)]) = NoMsg
           /\ out.ok =>
                 /\ last = n * Len(elems)
                 /\ \A c \in 1..last :
                       RuleCall(param, rules[ruleOf(c)], elems[elemOf(c)]) = NoMsg
           /\ (~out.ok /\ out.exc.rule # "") =>
                 /\ last > 0
                 /\ out.exc.type = "ValidationError"
                 /\ out.exc.rule = calls[last].fn
                 /\ out.exc.error = RuleCall(param, calls[last].fn, calls[last].args[1])
                 /\ out.exc.error # NoMsg
           /\ (~out.ok /\ out.exc.rule = "") =>
                 \E e \in 1..Len(elems) :
                    /\ elems[e].k # TypeOf(param.klass)
                    /\ \A e2 \in 1..(e - 1) : elems[e2].k = TypeOf(param.klass)
                    /\ last = n * (e - 1)

\* two class rules and one caller rule passed before the second caller rule
\* rejected the value
C5_Witness ==
    /\ op = "validate"
    /\ ~param.multivalue
    /\ param.minlength # None
    /\ param.maxlength # None
    /\ param.rules = <<"rule_pass", "rule_fail">>
    /\ Len(calls) = 4
    /\ ~out.ok
    /\ out.exc.rule = "rule_fail"

(***************************************************************************)
(* Properties of default resolution.                                       *)
(***************************************************************************)
\* the values of the declared keys of a DefaultFrom, in declared order
DeclaredValues(df, bindings) ==
    [i \in 1..Len(df.keys) |-> IF bindings[df.keys[i]] = Absent
                               THEN None
                               ELSE bindings[df.keys[i]]]

\* every declared key is present in the keyword bag with a non-None value
AllKeysBound(df, bindings) ==
    \A i \in 1..Len(df.keys) : bindings[df.keys[i]] \notin {Absent, None}

\* default_from yields a candidate: the keys are bound and the callback
\* returns a value other than None
HasCandidate(df, bindings) ==
    /\ AllKeysBound(df, bindings)
    /\ CallbackCall(df.callback, DeclaredValues(df, bindings)).ok
    /\ CallbackCall(df.callback, DeclaredValues(df, bindings)).val # None

Candidate(df, bindings) == CallbackCall(df.callback, DeclaredValues(df, bindings)).val

\* C6: with default_from, get_default returns convert(normalize(candidate))
\* when default_from yields a candidate whose conversion succeeds; when it
\* yields none (key missing or None, callback raising) or the conversion
\* raises, get_default raises nothing and returns the static default.
C6_DefaultFromFallback ==
    (op = "get_default" /\ param.default_from # None) =>
        LET df == param.default_from
        IN /\ out.ok
           /\ IF HasCandidate(df, kw)
                 /\ Convert(param, Normalize(param, Candidate(df, kw))).ok
              THEN out = Convert(param, Normalize(param, Candidate(df, kw)))
              ELSE out = Ok(param.default)

\* the candidate of default_from could not be converted and the static
\* default was returned
C6_Witness ==
    /\ op = "get_default"
    /\ param.default_from = DefaultFrom("echo", <<"first">>)
    /\ param.klass = "Int"
    /\ kw.first = PyUnicode(<<"A">>)
    /\ param.default # None
    /\ out = Ok(param.default)

\* C7: a DefaultFrom calls its callback exactly when every declared key is
\* in the keyword bag with a non-None value, passing the values of the
\* declared keys in declared order and nothing else; otherwise it returns
\* None without calling the callback.
C7_DefaultFromCall ==
    (op = "default_from") =>
        LET df == param.default_from
        IN IF AllKeysBound(df, kw)
           THEN calls = <<CallEntry("callback", DeclaredValues(df, kw))>>
           ELSE calls = <<>> /\ out = Ok(None)

\* the callback got the values of ('last', 'first') in that order while an
\* undeclared key was in the bag
C7_Witness ==
    /\ op = "default_from"
    /\ param.default_from = DefaultFrom("login", <<"last", "first">>)
    /\ kw.middle # Absent
    /\ calls = <<CallEntry("callback", <<PyUnicode(<<"1", "2">>), PyUnicode(<<"A">>)>>)>>
    /\ out = Ok(PyUnicode(<<"1", "A">>))

\* the create_default callback returned a value (it did not raise)
FactoryReturned(p) == p.create_default # None /\ p.create_default.name = "factory"

\* C8 as claimed: with create_default, get_default returns the value the
\* callback returned (here: any value other than None), unchanged.
C8_FactoryValueAsIs ==
    (op = "get_default" /\ FactoryReturned(param) /\ param.create_default.ret # None) =>
        out = Ok(param.create_default.ret)

\* C8: with create_default, get_default treats the returned value r like a
\* default_from candidate: it returns convert(normalize(r)) when r is not
\* None and the conversion succeeds, and the static default when r is None
\* or the conversion raises.
C8_FactoryValueConverted ==
    (op = "get_default" /\ FactoryReturned(param)) =>
        LET r == param.create_default.ret
        IN IF r # None /\ Convert(param, Normalize(param, r)).ok
           THEN out = Convert(param, Normalize(param, r))
           ELSE out = Ok(param.default)

\* the int that create_default returned came back from a Str as text
C8_Witness ==
    /\ op = "get_default"
    /\ param.klass = "Str"
    /\ ~param.multivalue
    /\ FactoryReturned(param)
    /\ param.create_default.ret = PyInt(2)
    /\ out = Ok(PyUnicode(<<"2">>))

\* C9: with create_default, every default resolution calls the callback
\* with the whole keyword bag, also an empty one, and an exception it raises
\* leaves get_default and Param.__call__; the static default is not used.
C9_FactoryFailurePropagates ==
    (param.create_default # None) =>
        /\ (op = "get_default") =>
              /\ calls = <<CallEntry("create_default", <<kw>>)>>
              /\ ~FactoryReturned(param) => out = FactoryCall(param.create_default, kw)
        /\ (op = "apply" /\ IsNull(raw) /\ pc # "call") =>
              /\ calls # <<>>
              /\ calls[1] = CallEntry("create_default", <<kw>>)
              /\ ~FactoryReturned(param) =>
                    /\ pc = "raised"
                    /\ out = FactoryCall(param.create_default, kw)

\* Param.__call__ with an empty keyword bag raised what create_default
\* raised although a static default was set
C9_Witness ==
    /\ op = "apply"
    /\ pc = "raised"
    /\ kw = EmptyKw
    /\ param.create_default = FactoryRaise
    /\ param.default # None
    /\ calls = <<CallEntry("create_default", <<EmptyKw>>)>>
    /\ ~out.ok
    /\ out.exc.type = "StandardError"

NormalizerKeeps(p, v) ==
    \/ p.normalizer = None
    \/ v = None
    \/ \A i \in 1..Len(ElementsOf(v)) : NormalizeScalar(p, ElementsOf(v)[i]) = ElementsOf(v)[i]

Constructed == pc # "new" /\ pc # "failed"

InitFailed == pc = "failed"

\* the keyword was given with a value other than None
Supplied(key) == kw[key] # Absent /\ kw[key] # None

\* the constructor raised the exception type with the message
InitRaised(type, text) ==
    /\ InitFailed
    /\ out.exc.type = type
    /\ out.exc.error.msg = text

PairError ==
    \/ InitRaised("ValueError", "cannot have both default_from and create_default")
    \/ InitRaised("ValueError", "cannot have both include and exclude")

BothOfPair ==
    \/ Supplied("default_from") /\ Supplied("create_default")
    \/ Supplied("include") /\ Supplied("exclude")

\* C11: the constructor raises the ValueError of a mutually exclusive pair
\* exactly when default_from and create_default are both supplied or include
\* and exclude are both supplied (a keyword of the wrong type is reported
\* first, as a TypeError); with neither or one member of each pair the
\* exclusivity checks pass, and no constructed parameter has both members of
\* a pair set.
C11_ExclusivePairs ==
    /\ PairError => BothOfPair
    /\ (InitFailed /\ BothOfPair) => (PairError \/ out.exc.type = "TypeError")
    /\ BothOfPair => ~Constructed
    /\ Constructed =>
          /\ ~(param.default_from # None /\ param.create_default # None)
          /\ ~(param.include # None /\ param.exclude # None)

C11_Witness ==
    /\ InitRaised("ValueError", "cannot have both default_from and create_default")
    /\ ~(Supplied("include") /\ Supplied("exclude"))

\* the length keywords of the constructor call break a rule of Data.__init__
LengthMixed ==
    Supplied("length") /\ (Supplied("minlength") \/ Supplied("maxlength"))

LengthBelowOne ==
    \/ Supplied("minlength") /\ kw.minlength.n < 1
    \/ Supplied("maxlength") /\ kw.maxlength.n < 1

LengthBoundsCrossed ==
    /\ Supplied("minlength")
    /\ Supplied("maxlength")
    /\ kw.minlength.n >= kw.maxlength.n

\* C12: the constructor of a Bytes or Str parameter raises ValueError when
\* length is given together with minlength or maxlength, when minlength or
\* maxlength is below 1, when minlength > maxlength and when
\* minlength == maxlength; a constructed Bytes or Str parameter with both
\* bounds set has 1 <= minlength < maxlength.
C12_LengthBounds ==
    param.klass \in {"Str", "Bytes"} =>
       /\ (LengthMixed \/ LengthBelowOne \/ LengthBoundsCrossed) =>
             /\ ~Constructed
             /\ InitFailed => out.exc.type = "ValueError"
       /\ (Constructed /\ param.minlength # None /\ param.maxlength # None) =>
             /\ 1 <= param.minlength.n
             /\ param.minlength.n < param.maxlength.n

C12_Witness ==
    /\ param.klass \in {"Str", "Bytes"}
    /\ InitRaised("ValueError", "minlength == maxlength; use length=%d instead")
    /\ kw.minlength = PyInt(2)
    /\ kw.maxlength = PyInt(2)

\* the bounds the constructor call gives an Int or Float: a keyword that is
\* not supplied takes the default of the class
MinGiven == IF kw.minvalue = Absent THEN None ELSE kw.minvalue

MaxGiven ==
    IF kw.maxvalue # Absent THEN kw.maxvalue
    ELSE IF param.klass = "Int" THEN PyInt(MAXINT) ELSE None

\* both bounds are numbers of the class type, or None
BoundsWellTyped ==
    \A b \in {MinGiven, MaxGiven} :
        b = None \/ b.k = TypeOf(param.klass)

\* C13: the constructor of an Int or Float parameter raises the
\* minvalue > maxvalue ValueError if and only if minvalue and maxvalue are
\* both not None (the maxvalue of an Int being MAXINT when not supplied) and
\* minvalue > maxvalue; a constructed Int or Float with both bounds not None
\* has minvalue <= maxvalue.
C13_ValueBounds ==
    (param.klass \in {"Int", "Float"} /\ pc # "new") =>
       /\ BoundsWellTyped =>
             (InitRaised("ValueError", "minvalue > maxvalue")
                <=> /\ MinGiven # None
                    /\ MaxGiven # None
                    /\ MinGiven.n > MaxGiven.n)
       /\ (Constructed /\ param.minvalue # None /\ param.maxvalue # None) =>
             param.minvalue.n <= param.maxvalue.n

C13_Witness ==
    /\ param.klass = "Float"
    /\ InitRaised("ValueError", "minvalue > maxvalue")
    /\ kw.minvalue = PyFloat(30)
    /\ kw.maxvalue = PyFloat(25)

\* the spec of the constructor call is still in raw
AtSpec == op = "__init__" /\ raw.k = "str"

\* the name and the suffix of the spec, read off its text
SpecName == raw.s[1]

SpecSuffix == IF Len(raw.s) = 2 THEN raw.s[2] ELSE ""

SuffixRequired == SpecSuffix \in {"", "+"}

SuffixMultivalue == SpecSuffix \in {"*", "+"}

\* the multivalue keyword Param.__init__ receives: List.__init__ always
\* passes multivalue=True
MultivalueKeyword == IF param.klass = "List" THEN PyBool(TRUE) ELSE kw.multivalue

ListValidated ==
    /\ op = "validate"
    /\ pc = "done"
    /\ param.klass = "List"
    /\ raw.k = "tuple"

\* C15 as stated: on a List parameter validate hands every rule the whole
\* token sequence, once, and never an individual token.
C15_RulesGetWholeSequence ==
    ListValidated =>
       /\ \A c \in 1..Len(calls) : calls[c].args = <<raw>>
       /\ Len(calls) <= Len(AllRules(param))

\* C15, amended: on a List parameter validate calls the rules once per
\* token, token by token and in the order of all_rules, with the token as
\* the value argument; the tokens are not type-checked, the first rejection
\* ends the run and is reported under the parameter name with the index of
\* the token, and when no rule rejects every rule has seen every token.
C15_RulesGetEachToken ==
    (ListValidated /\ ~param.query /\ Len(raw.items) > 0) =>
       LET n == Len(AllRules(param))
       IN /\ \A c \in 1..Len(calls) :
                calls[c] = CallEntry(AllRules(param)[((c - 1) % n) + 1],
                                     <<raw.items[((c - 1) \div n) + 1]>>)
          /\ out.ok => Len(calls) = n * Len(raw.items)
          /\ ~out.ok =>
                /\ out.exc.type = "ValidationError"
                /\ out.exc.name = param.name
                /\ Len(calls) > 0
                /\ out.exc.rule = calls[Len(calls)].fn
                /\ out.exc.value = raw.items[out.exc.index + 1]
                /\ out.exc.index = (Len(calls) - 1) \div n

C15_Witness ==
    /\ ListValidated
    /\ Len(raw.items) = 2
    /\ param.rules = <<"rule_small">>
    /\ Len(calls) = 2
    /\ ~out.ok
    /\ out.exc.index = 1

\* validate has run on an AccessTime parameter with a text value
AccessTimeValidated ==
    /\ op = "validate"
    /\ pc = "done"
    /\ param.klass = "AccessTime"
    /\ ~param.multivalue
    /\ ~param.query
    /\ raw.k = "unicode"

\* the tokens of the expression handed to validate
Tokens == Split(raw.s)

\* C16 as stated: 'absolute T1 ~ T2' with both stamps well-formed, of equal
\* or different lengths, is accepted if and only if T1 is less than T2 as
\* text; a reversed or equal pair is rejected with a ValidationError.
C16_AcceptedIffTextLess ==
    (AccessTimeValidated /\ Tokens \in AbsoluteExprs) =>
       /\ out.ok <=> TextLess(Tokens[2], Tokens[4])
       /\ ~out.ok => out.exc.type = "ValidationError"

\* C17 as stated: 'periodic yearly month <M> <month-spec> <HHMM-intervals>'
\* is accepted for every <M> that is a comma-separated list of month numbers
\* 1-12 or of ranges lo-hi with lo <= hi, the month-spec and the HHMM
\* intervals being valid.
C17_MonthListsAccepted ==
    (/\ AccessTimeValidated
     /\ Tokens \in YearlyMonthExprs
     /\ Tokens[4] \in GoodMonthLists) => out.ok

\* the ValidationError AccessTime._rule_required raises with the message
TimeError(text) ==
    /\ ~out.ok
    /\ out.exc.type = "ValidationError"
    /\ out.exc.name = param.cli_name
    /\ out.exc.error.msg = text

\* C18 as stated: every truncated expression, absolute or periodic, fails
\* with the 'incomplete' ValidationError, and an expression with every token
\* present and a malformed field fails with the message of that field.
C18_TruncatedIsIncomplete ==
    AccessTimeValidated =>
       /\ Tokens \in TruncatedPeriodic \cup TruncatedAbsolute =>
             TimeError("incomplete time value")
       /\ \A c \in MalformedCases : Tokens = c.expr => TimeError(c.msg)

\* C18, amended: a truncated periodic expression fails with the
\* ValidationError 'incomplete time value'; a truncated absolute expression
\* (fewer than four tokens) fails with the ValidationError 'invalid format,
\* must be ...' instead; an expression with every token present and a
\* malformed field fails with the message of that field; no truncated
\* expression is accepted.
C18_TruncatedRejected ==
    AccessTimeValidated =>
       /\ Tokens \in TruncatedPeriodic => TimeError("incomplete time value")
       /\ Tokens \in TruncatedAbsolute =>
             TimeError("invalid format, must be 'absolute generalizedTime ~ generalizedTime'")
       /\ \A c \in MalformedCases : Tokens = c.expr => TimeError(c.msg)
       /\ Tokens \in TruncatedPeriodic \cup TruncatedAbsolute => ~out.ok

C18_Witness ==
    /\ AccessTimeValidated
    /\ Tokens \in TruncatedAbsolute
    /\ Len(Tokens) = 3
    /\ TimeError("invalid format, must be 'absolute generalizedTime ~ generalizedTime'")

\* validate has run on a scalar enumeration with a value of the class type
EnumValidated ==
    /\ op = "validate"
    /\ pc = "done"
    /\ param.klass = "StrEnum"
    /\ ~param.multivalue
    /\ ~param.query
    /\ raw.k = TypeOf(param.klass)

\* the values the constructor call declared
DeclaredEnumValues ==
    IF kw.values = Absent THEN {} ELSE {kw.values.items[i] : i \in 1..Len(kw.values.items)}

\* C19: validate of a scalar of the class type on an enumeration succeeds if
\* and only if the scalar is one of the declared values, and otherwise
\* raises the ValidationError of the rule _rule_values whose message carries
\* the declared values; with values (One, Two, Three), 'Two' passes and
\* 'Four' is rejected.
C19_EnumMembership ==
    EnumValidated =>
       /\ out.ok <=> raw \in DeclaredEnumValues
       /\ ~out.ok =>
             /\ out.exc.type = "ValidationError"
             /\ out.exc.rule = "_rule_values"
             /\ out.exc.value = raw
             /\ out.exc.error.msg = "must be one of %(values)r"
             /\ out.exc.error.values = param.values
       /\ DeclaredEnumValues = {PyUnicode(Txt_One), PyUnicode(Txt_Two), PyUnicode(Txt_Three)} =>
             /\ raw = PyUnicode(Txt_Two) => out.ok
             /\ raw = PyUnicode(Txt_Four) => ~out.ok

C19_Witness ==
    /\ EnumValidated
    /\ DeclaredEnumValues = {PyUnicode(Txt_One), PyUnicode(Txt_Two), PyUnicode(Txt_Three)}
    /\ raw = PyUnicode(Txt_Four)
    /\ ~out.ok
    /\ out.exc.error = ValuesMsg(param.values)

\* the tag is listed in the include or exclude keyword of the constructor
\* call
Listed(key, tag) ==
    IF kw[key].k = "str" THEN kw[key] = PyStr(<<tag>>)
    ELSE \E i \in 1..Len(kw[key].items) : kw[key].items[i] = PyStr(<<tag>>)

\* C20: use_in_context returns true iff the context tag is in include when
\* include is set, true iff the tag is not in exclude when exclude is set,
\* and true for every tag when neither is set.
C20_UseInContext ==
    (op = "use_in_context" /\ pc = "done") =>
       /\ Supplied("include") => out = Ok(PyBool(Listed("include", context)))
       /\ Supplied("exclude") => out = Ok(PyBool(~Listed("exclude", context)))
       /\ (~Supplied("include") /\ ~Supplied("exclude")) => out = Ok(PyBool(TRUE))

C20_Witness ==
    /\ op = "use_in_context"
    /\ pc = "done"
    /\ Supplied("include")
    /\ ~Listed("include", context)
    /\ context = "server"
    /\ out = Ok(PyBool(FALSE))

(***************************************************************************)
(* Properties of clone.                                                    *)
(***************************************************************************)
\* a clone call has returned or raised
Cloned == op = "clone" /\ pc = "done"

\* the keywords of the constructor that the clone call did not override
KeptKeys == {key \in CtorKeys : value.overrides[key] = Absent}

\* C21: clone with no overrides returns a parameter with the same name,
\* class, required and multivalue flags (also when they came from the suffix
\* of the spec), keyword values and extra rules as the original; a clone
\* that is built with overrides, another name or another class has the name
\* and the class asked for, the extra rules of the original and the
\* original's value for every keyword that was not overridden.
C21_CloneKeeps ==
    Cloned =>
       /\ (value = CloneArgs(param.name, param.klass, NoKw)) => out = Ok(param)
       /\ out.ok =>
             /\ out.val.name = value.name
             /\ out.val.klass = value.klass
             /\ out.val.rules = param.rules
             /\ \A key \in KeptKeys : out.val.clonekw[key] = param.clonekw[key]
             /\ value.klass = param.klass =>
                   \A key \in KeptKeys : out.val[key] = param[key]

\* a parameter built from the spec 'var*' with no keywords is cloned without
\* overrides and the clone is multivalue and not required
C21_Witness ==
    /\ Cloned
    /\ raw = PyStr(<<"var", "*">>)
    /\ kw = NoKw
    /\ value = CloneArgs("var", "Str", NoKw)
    /\ out.ok
    /\ out.val.multivalue
    /\ ~out.val.required
    /\ out.val.name = "var"

(***************************************************************************)
(* Properties of concurrent callers.                                       *)
(***************************************************************************)
\* thread t has left Param.__call__, by return or by exception
Left(t) == op[t] = "apply" /\ pc[t] \in {"done", "raised"}

\* C22: no step of apply, normalize, convert, validate, get_default,
\* use_in_context or clone changes a field of the constructed instance, and
\* in every interleaving of two threads on the same instance each call of
\* Param.__call__ returns or raises what it returns or raises when run alone
\* on its inputs, and each other method gives its result on the instance.
C22_NoInterference ==
    [][/\ param' = param
       /\ \A t \in ParThreads :
             /\ Left(t)' =>
                   out'[t] = ParamCall(param', raw'[t], kw'[t], context'[t])
             /\ (op'[t] \in ParMethods /\ pc'[t] = "done") =>
                   out'[t] = MethodCall(param', op'[t], raw'[t], kw'[t], context'[t])]_vars

\* both threads are inside Param.__call__ on the same instance with
\* different inputs: one has validated the normalized text and is about to
\* return it, the other has resolved the default and is about to validate it
C22_Witness ==
    /\ param.klass = "Str" /\ param.normalizer = PyFn("lower")
    /\ op[1] = "apply" /\ pc[1] = "return"
    /\ raw[1] = PyUnicode(<<"A">>) /\ validated[1] = <<PyUnicode(<<"a">>)>>
    /\ op[2] = "apply" /\ pc[2] = "validate"
    /\ raw[2] = None /\ value[2] = PyUnicode(<<"A", "b">>)

(***************************************************************************)
(* Properties of normalize.                                                *)
(***************************************************************************)
\* y is what normalize leaves in the place of scalar x: the normalizer's
\* result when x is text and the normalizer does not fail, else x itself
NormalizedOrKept(p, x, y) ==
    \E r \in {IF x.k = "unicode" THEN NormalizerCall(p.normalizer, x) ELSE Raise(None)} :
        y = IF r.ok THEN r.val ELSE x

\* C23: normalize never raises.  Without a normalizer it returns its input
\* unchanged; with one, a multivalue parameter gets a tuple with one entry
\* per element of the input (a bare scalar counting as a one-element
\* sequence) and a single-valued parameter gets one scalar, each scalar
\* being the normalizer's result if it is text and the normalizer does not
\* fail and the scalar itself otherwise.
C23_NormalizeNeverRaises ==
    (op = "normalize" /\ pc = "done") =>
        /\ out.ok
        /\ IF param.normalizer = None THEN out.val = raw
           ELSE IF param.multivalue
           THEN \E items \in {IF IsSeqValue(raw) THEN raw.items ELSE <<raw>>} :
                   /\ out.val.k = "tuple"
                   /\ Len(out.val.items) = Len(items)
                   /\ \A i \in 1..Len(items) :
                         NormalizedOrKept(param, items[i], out.val.items[i])
           ELSE NormalizedOrKept(param, raw, out.val)

\* a failing normalizer on a multivalue parameter: the text and the number
\* both come back as they were
C23_Witness ==
    /\ op = "normalize" /\ pc = "done"
    /\ param.normalizer = PyFn("fail") /\ param.multivalue
    /\ raw = PyTuple(<<PyUnicode(<<"A">>), PyInt(2)>>)
    /\ out = Ok(raw)

(***************************************************************************)
(* Properties of query parameters.                                         *)
(***************************************************************************)
\* validate was called directly on a query parameter
QueryValidated == op = "validate" /\ pc = "done" /\ param.query

\* C24: on a parameter with query set, validate of any value other than None
\* succeeds and calls no rule, whatever the value is: of the wrong kind,
\* one that a rule rejects, an empty tuple or a value that is no tuple on a
\* multivalue parameter.
C24_QueryUnchecked ==
    (QueryValidated /\ raw # None) => (out = Ok(None) /\ calls = <<>>)

\* a multivalue Str query parameter whose first rule rejects everything
\* accepted a bare number
C24_Witness ==
    /\ QueryValidated
    /\ param.klass = "Str" /\ param.multivalue
    /\ param.rules = <<"rule_fail", "rule_pass">>
    /\ raw = PyInt(2)
    /\ out = Ok(None)

\* C25 as stated: on a parameter with query set, validate of None succeeds
\* even when required is true.
C25_QuerySkipsRequired ==
    (QueryValidated /\ raw = None) => out.ok

\* C25 as the code has it: on a parameter with query set, validate of None
\* still runs the required check: it raises RequirementError when required
\* is true, naming cli_name in the 'cli' context and name otherwise, and
\* succeeds when required is false; no rule is called either way.
C25_QueryKeepsRequired ==
    (QueryValidated /\ raw = None) =>
        /\ calls = <<>>
        /\ out.ok = ~param.required
        /\ ~out.ok =>
              /\ out.exc.type = "RequirementError"
              /\ out.exc.name = IF context = "cli" THEN param.cli_name ELSE param.name

\* a required query parameter refused None
C25_Witness ==
    /\ QueryValidated
    /\ param.required
    /\ raw = None
    /\ context = "server"
    /\ out = Raise(RequirementError(param.name))

(***************************************************************************)
(* Properties of the errors of element-level validation.                   *)
(***************************************************************************)
\* validate, called directly, raised a ValidationError
ValidationRaised ==
    op = "validate" /\ pc = "done" /\ ~out.ok /\ out.exc.type = "ValidationError"

\* the error reports the failure of a rule, not a mismatch of kind
RuleFailed == out.exc.rule # ""

\* the error carries the scalar the rule rejected, its position in the
\* tuple when the parameter is multivalue and no index otherwise, the rule
\* and the message the rule returned
CarriesRuleFailure ==
    /\ IF param.multivalue
       THEN /\ out.exc.index \in 0..(Len(raw.items) - 1)
            /\ out.exc.value = raw.items[out.exc.index + 1]
       ELSE out.exc.index = NoIndex /\ out.exc.value = raw
    /\ \E i \in 1..Len(AllRules(param)) : AllRules(param)[i] = out.exc.rule
    /\ out.exc.error # NoMsg
    /\ out.exc.error = RuleCall(param, out.exc.rule, out.exc.value)

ContractMessages ==
    {"value: need a tuple", "value: empty tuple must be converted to None"}

\* C27: for a multivalue parameter that is not in query mode, whatever the
\* raw value, the static default and the bindings, the value Param.__call__
\* hands to validate is None or a tuple with at least one element, and
\* Param.__call__ never fails with the TypeError or the ValueError of
\* validate's contract checks.
C27_ApplyKeepsContract ==
    (op = "apply" /\ param.multivalue /\ ~param.query) =>
        /\ pc = "validate" =>
              \/ value = None
              \/ value.k = "tuple" /\ Len(value.items) >= 1
        /\ pc = "raised" => out.exc.error.msg \notin ContractMessages

(***************************************************************************)
(* Properties of the fallback to the static default.                       *)
(***************************************************************************)
\* the hook returned h and it is of no use: it is None, or
\* convert(normalize(h)) fails or gives None
Unusable(p, h) ==
    \/ h = None
    \/ \E c \in {Convert(p, Normalize(p, h))} : ~c.ok \/ c.val = None

\* C28: when the default hook returns without raising and its value is of
\* no use (None, a value whose conversion fails, or a null-equivalent that
\* convert collapses to None), get_default returns the static default; so
\* get_default of a parameter with a static default other than None never
\* returns None.
C28_FallsBackToStatic ==
    (op = "get_default" /\ pc = "done" /\ out.ok) =>
        /\ param.default # None => out.val # None
        /\ GetDefaultHook(param) # None =>
              \E h \in {HookCall(param, kw).out} :
                  (h.ok /\ Unusable(param, h.val)) => out.val = param.default

(***************************************************************************)
(* Properties of the index carried by the errors of a multivalue           *)
(* parameter.                                                              *)
(***************************************************************************)
\* Param.__call__ raised on a raw value that is not a null-equivalent,
\* given to a multivalue parameter
MultivalueRaised ==
    op = "apply" /\ pc = "raised" /\ param.multivalue /\ ~IsNull(raw)

\* the sequence convert enumerates: the elements of the normalized input, a
\* bare scalar counting as a one-element sequence
Supplied_Items(v) == IF IsSeqValue(v) THEN v.items ELSE <<v>>

\* the index of a ConversionError is the position, in the sequence as
\* supplied, of the first element that is no null-equivalent and does not
\* convert
ConversionIndexIsRaw(items) ==
    /\ out.exc.index \in 0..(Len(items) - 1)
    /\ \A i \in 1..Len(items) :
          (~IsNull(items[i]) /\ i <= out.exc.index + 1) =>
              (ConvertScalar(param, items[i], i - 1).ok <=> i <= out.exc.index)
    /\ ~IsNull(items[out.exc.index + 1])

\* the index of a ValidationError is the position of the rejected element
\* in the converted tuple, which holds the elements of the supplied sequence
\* that are no null-equivalents, in order
ValidationIndexIsConverted(items, kept) ==
    /\ Len(value.items) = Len(kept)
    /\ out.exc.index \in 0..(Len(kept) - 1)
    /\ out.exc.value = value.items[out.exc.index + 1]
    /\ out.exc.value = ConvertScalar(param, items[kept[out.exc.index + 1]], NoIndex).val
    /\ out.exc.index =
          kept[out.exc.index + 1] - 1
            - Cardinality({i \in 1..kept[out.exc.index + 1] : IsNull(items[i])})

\* C29: for a multivalue parameter the index of a ConversionError is the
\* position of the failing element in the input sequence as supplied,
\* null-equivalents counted, and the index of a ValidationError is the
\* position of the element in the converted tuple, null-equivalents
\* dropped.
C29_ErrorIndices ==
    MultivalueRaised =>
        \E items \in {Supplied_Items(Normalize(param, raw))} :
            /\ out.exc.type = "ConversionError" => ConversionIndexIsRaw(items)
            /\ out.exc.type = "ValidationError" =>
                  ValidationIndexIsConverted(items, NonNullIndices(items, 1))

\* the input (None, u'Ab'): the second element of the input is the first of
\* the converted tuple, and the rule's error carries index 0
C29_Witness ==
    /\ MultivalueRaised
    /\ param.klass = "Str" /\ param.normalizer = None
    /\ raw = PyTuple(<<None, PyUnicode(<<"A", "b">>)>>)
    /\ value = PyTuple(<<PyUnicode(<<"A", "b">>)>>)
    /\ out.exc.type = "ValidationError"
    /\ out.exc.rule = "rule_small"
    /\ out.exc.index = 0

====
